---- MODULE Spec2Model ----
(***************************************************************************)
(* Validation orchestration of key-aws-exporter: the per-endpoint         *)
(* S3Validator (client cache, probe, error classification) and the        *)
(* ValidatorManager that fans ValidateKeys out over the registered         *)
(* endpoints.                                                              *)
(***************************************************************************)
EXTENDS FiniteSets, Integers, Naturals, Sequences, TLC

\* ------------------------------------------------------------------ bounds
\* manager operations (ValidateAll, ValidateEndpoint) started in one behaviour
MaxOps == 2
\* ticks a ValidateKeys call is followed for
MaxElapsed == 2
\* cfg.ValidationTimeout (vm.timeout), in ticks
ValidationTimeout == 1
\* clock ticks per millisecond
TicksPerMs == 2
\* letters of an API error code whose case differs from the documented spelling
MaxFlips == 1

\* ------------------------------------------------------- error-kind tags
errorTypeUnknown == "unknown"
errorTypeConfig == "config_error"
errorTypeTimeout == "timeout"
errorTypeCanceled == "canceled"
errorTypeNetwork == "network"
errorTypeForbidden == "access_denied"
errorTypeNotFound == "bucket_not_found"
errorTypeTokenExpired == "token_expired"
errorTypeThrottled == "throttled"

StatusForbidden == 403
StatusNotFound == 404
StatusGatewayTimeout == 504

\* ------------------------------------------------------------ error values
\* An error value is the chain of shapes errors.Is / errors.As can find in it:
\*   text               : Error()
\*   deadline, canceled : the chain holds the context sentinel
\*   net                : "none", or a net.Error with Timeout() true / false
\*   api                : TRUE when a smithy.APIError is in the chain
\*   code               : its ErrorCode(), a sequence of characters
\*   status             : HTTP status of a smithyhttp.ResponseError, 0 if none
NoErr ==
  [nil |-> TRUE, text |-> "", deadline |-> FALSE, canceled |-> FALSE, net |-> "none",
   api |-> FALSE, code |-> <<>>, status |-> 0]

MkErr(tx, dl, cn, nt, ap, cd, st) ==
  [nil |-> FALSE, text |-> tx, deadline |-> dl, canceled |-> cn, net |-> nt,
   api |-> ap, code |-> cd, status |-> st]

UpperCase == <<"A","B","C","D","E","F","G","H","I","J","K","L","M",
               "N","O","P","Q","R","S","T","U","V","W","X","Y","Z">>
LowerCase == <<"a","b","c","d","e","f","g","h","i","j","k","l","m",
               "n","o","p","q","r","s","t","u","v","w","x","y","z">>

ToLowerChar(ch) ==
  IF \E i \in 1..26 : UpperCase[i] = ch
    THEN LowerCase[CHOOSE i \in 1..26 : UpperCase[i] = ch]
    ELSE ch

\* the code compared as it is spelled
ToLower_Identity(s) == s

ToLower(s) == [i \in 1..Len(s) |-> ToLowerChar(s[i])]

\* error codes as the tests and the S3 service spell them
CodeAccessDenied == <<"A","c","c","e","s","s","D","e","n","i","e","d">>
CodeInvalidAccessKeyId == <<"I","n","v","a","l","i","d","A","c","c","e","s","s","K","e","y","I","d">>
CodeSignatureDoesNotMatch == <<"S","i","g","n","a","t","u","r","e","D","o","e","s","N","o","t","M","a","t","c","h">>
CodeNoSuchBucket == <<"N","o","S","u","c","h","B","u","c","k","e","t">>
CodeNoSuchBucketPolicy == <<"N","o","S","u","c","h","B","u","c","k","e","t","P","o","l","i","c","y">>
CodeExpiredToken == <<"E","x","p","i","r","e","d","T","o","k","e","n">>
CodeSlowDown == <<"S","l","o","w","D","o","w","n">>
CodeThrottling == <<"T","h","r","o","t","t","l","i","n","g">>
CodeThrottlingException == <<"T","h","r","o","t","t","l","i","n","g","E","x","c","e","p","t","i","o","n">>
CodeRequestTimeout == <<"R","e","q","u","e","s","t","T","i","m","e","o","u","t">>
NoCode == <<>>

\* the switch on the lower-cased API error code; "" when no case matches
ClassifyCode(code) ==
  CASE code \in {<<"a","c","c","e","s","s","d","e","n","i","e","d">>,
                 <<"i","n","v","a","l","i","d","a","c","c","e","s","s","k","e","y","i","d">>,
                 <<"s","i","g","n","a","t","u","r","e","d","o","e","s","n","o","t","m","a","t","c","h">>} -> errorTypeForbidden
    [] code \in {<<"n","o","s","u","c","h","b","u","c","k","e","t">>,
                 <<"n","o","s","u","c","h","b","u","c","k","e","t","p","o","l","i","c","y">>} -> errorTypeNotFound
    [] code = <<"e","x","p","i","r","e","d","t","o","k","e","n">> -> errorTypeTokenExpired
    [] code \in {<<"s","l","o","w","d","o","w","n">>,
                 <<"t","h","r","o","t","t","l","i","n","g">>,
                 <<"t","h","r","o","t","t","l","i","n","g","e","x","c","e","p","t","i","o","n">>} -> errorTypeThrottled
    [] code = <<"r","e","q","u","e","s","t","t","i","m","e","o","u","t">> -> errorTypeTimeout
    [] OTHER -> ""

\* every 5xx status taken for a gateway timeout
ClassifyStatus_ServerErrors(status) ==
  CASE status = StatusForbidden -> errorTypeForbidden
    [] status = StatusNotFound -> errorTypeNotFound
    [] status >= 500 -> errorTypeTimeout
    [] OTHER -> ""

\* the switch on the HTTP status of a ResponseError; "" when no case matches
ClassifyStatus(status) ==
  CASE status = StatusForbidden -> errorTypeForbidden
    [] status = StatusNotFound -> errorTypeNotFound
    [] status = StatusGatewayTimeout -> errorTypeTimeout
    [] OTHER -> ""

\* the Timeout() flag of the net.Error never consulted
ClassifyNet_NoFlag(net) == errorTypeNetwork

\* a net.Error in the chain: timeout when netErr.Timeout(), network otherwise
ClassifyNet(net) ==
  IF net = "timeout" THEN errorTypeTimeout ELSE errorTypeNetwork

\* the classifier without the check for context.Canceled
classifyValidationError_NoCanceled(err) ==
  IF err.nil THEN ""
  ELSE IF err.deadline THEN errorTypeTimeout
  ELSE IF err.net # "none" THEN ClassifyNet(err.net)
  ELSE IF err.api /\ ClassifyCode(ToLower(err.code)) # ""
    THEN ClassifyCode(ToLower(err.code))
  ELSE IF err.status # 0 /\ ClassifyStatus(err.status) # ""
    THEN ClassifyStatus(err.status)
  ELSE errorTypeUnknown

\* the classifier falling off its last switch with the zero value
classifyValidationError_NoDefault(err) ==
  IF err.nil THEN ""
  ELSE IF err.deadline THEN errorTypeTimeout
  ELSE IF err.canceled THEN errorTypeCanceled
  ELSE IF err.net # "none" THEN ClassifyNet(err.net)
  ELSE IF err.api /\ ClassifyCode(ToLower(err.code)) # ""
    THEN ClassifyCode(ToLower(err.code))
  ELSE ClassifyStatus(err.status)

\* the classifier looking at the API error code before the structural checks
classifyValidationError_CodeFirst(err) ==
  IF err.nil THEN ""
  ELSE IF err.api /\ ClassifyCode(ToLower(err.code)) # ""
    THEN ClassifyCode(ToLower(err.code))
  ELSE IF err.deadline THEN errorTypeTimeout
  ELSE IF err.canceled THEN errorTypeCanceled
  ELSE IF err.net # "none" THEN ClassifyNet(err.net)
  ELSE IF err.status # 0 /\ ClassifyStatus(err.status) # ""
    THEN ClassifyStatus(err.status)
  ELSE errorTypeUnknown

classifyValidationError(err) ==
  IF err.nil THEN ""
  ELSE IF err.deadline THEN errorTypeTimeout
  ELSE IF err.canceled THEN errorTypeCanceled
  ELSE IF err.net # "none" THEN ClassifyNet(err.net)
  ELSE IF err.api /\ ClassifyCode(ToLower(err.code)) # ""
    THEN ClassifyCode(ToLower(err.code))
  ELSE IF err.status # 0 /\ ClassifyStatus(err.status) # ""
    THEN ClassifyStatus(err.status)
  ELSE errorTypeUnknown


\* errors the probe (ListObjectsV2) and the build hook are seen to return
ErrDeadlineExceeded == MkErr("context deadline exceeded", TRUE, FALSE, "none", FALSE, NoCode, 0)
ErrCanceled == MkErr("context canceled", FALSE, TRUE, "none", FALSE, NoCode, 0)
ErrAccessDenied ==
  MkErr("API Error: AccessDenied", FALSE, FALSE, "none", TRUE,
        CodeAccessDenied, 0)
ErrBoom == MkErr("boom", FALSE, FALSE, "none", FALSE, NoCode, 0)
ErrConfigFailed == MkErr("config failed", FALSE, FALSE, "none", FALSE, NoCode, 0)

\* ------------------------------------------------- classifier inputs
\* the letter ch in the other case
SwapCaseChar(ch) ==
  IF \E i \in 1..26 : UpperCase[i] = ch
    THEN LowerCase[CHOOSE i \in 1..26 : UpperCase[i] = ch]
  ELSE IF \E i \in 1..26 : LowerCase[i] = ch
    THEN UpperCase[CHOOSE i \in 1..26 : LowerCase[i] = ch]
  ELSE ch

SwapCase(s) == [i \in 1..Len(s) |-> SwapCaseChar(s[i])]

\* the spellings of code s with at most k letters in the other case
RECURSIVE Spellings(_, _)
Spellings(s, k) ==
  IF k = 0 THEN {s}
  ELSE LET prev == Spellings(s, k - 1)
       IN prev \cup {[t EXCEPT ![i] = SwapCaseChar(@)] :
                       t \in prev, i \in 1..Len(s)}

\* the codes the switch of the classifier lists, as the service spells them
ListedCodes ==
  {CodeAccessDenied, CodeInvalidAccessKeyId, CodeSignatureDoesNotMatch,
   CodeNoSuchBucket, CodeNoSuchBucketPolicy, CodeExpiredToken, CodeSlowDown,
   CodeThrottling, CodeThrottlingException, CodeRequestTimeout}

\* codes of the service the switch does not list, and the empty code
CodeInternalError == <<"I","n","t","e","r","n","a","l","E","r","r","o","r">>
CodeNoSuchKey == <<"N","o","S","u","c","h","K","e","y">>
UnlistedCodes == {CodeInternalError, CodeNoSuchKey, NoCode}

\* ErrorCode() values handed to the classifier
ApiCodes ==
  UNION {Spellings(code, MaxFlips) \cup {SwapCase(code)} : code \in ListedCodes}
    \cup UnlistedCodes

\* HTTPStatusCode() values of a ResponseError in the chain, 0 without one
HttpStatuses == {0, StatusForbidden, StatusNotFound, StatusGatewayTimeout, 500}

\* the errors handed to the classifier: nil, and every combination of the
\* shapes errors.Is and errors.As look for in the chain
ClassifierInputs ==
  {NoErr}
    \cup {MkErr("error", dl, cn, nt, FALSE, NoCode, st) :
            dl \in BOOLEAN, cn \in BOOLEAN, nt \in {"none", "timeout", "other"},
            st \in HttpStatuses}
    \cup {MkErr("error", dl, cn, nt, TRUE, cd, st) :
            dl \in BOOLEAN, cn \in BOOLEAN, nt \in {"none", "timeout", "other"},
            cd \in ApiCodes, st \in HttpStatuses}

\* one probe failure for every shape the classifier looks for, codes spelled
\* as documented
KindErrors ==
  {MkErr("error", dl, cn, "none", FALSE, NoCode, 0) :
     dl \in BOOLEAN, cn \in BOOLEAN}
    \cup {MkErr("error", FALSE, FALSE, nt, FALSE, NoCode, 0) :
            nt \in {"timeout", "other"}}
    \cup {MkErr("error", FALSE, FALSE, "none", TRUE, cd, 0) :
            cd \in ListedCodes \cup UnlistedCodes}
    \cup {MkErr("error", FALSE, FALSE, "none", FALSE, NoCode, st) :
            st \in HttpStatuses}

\* the probe failures the tests inject
InjectedErrors == {ErrBoom, ErrAccessDenied}

\* ------------------------------------------------------------------- state
\* cfg.Endpoints, by name
EndpointList == <<"one", "two">>
EndpointNames == {EndpointList[i] : i \in 1..Len(EndpointList)}

\* the two sources of manager calls: an HTTP request handler and the
\* background auto-validation tick
Callers == {"request", "tick"}
RequestCallers == {"request"}

NoClient == 0
NoHolder == "free"
NoResult == [nil |-> TRUE]
NoStatus == 0
NoSummary == [TotalEndpoints |-> 0, Successful |-> 0, Failed |-> 0]
NoRecords == [n \in EndpointNames |-> 0]
NoValue == [op |-> "none", count |-> 0, names |-> {}]
NoRequest == [method |-> "", path |-> <<>>]
NotReturned == "pending"

VARIABLES
  validators,    \* vm.validators: the registered endpoint names
  muReaders,     \* vm.mu: number of read locks held
  client,        \* v.client per validator, NoClient when nil
  clientMu,      \* v.clientMu per validator: the caller holding it, or NoHolder
  buildCalls,    \* per validator: invocations of v.newClient so far
  builtClients,  \* per validator: the clients v.newClient returned without error
  lastBuild,     \* per validator: outcome of the latest v.newClient call
  buildFails,    \* per validator: v.newClient calls that returned an error
  op,            \* per caller: "none", "all" (ValidateAll) or "one" (ValidateEndpoint)
  target,        \* per caller: endpointName argument of ValidateEndpoint
  mpc,           \* per caller: position inside the manager operation
  ctxCanceled,   \* per caller: the ctx argument has been canceled
  wg,            \* per caller: the WaitGroup counter of its ValidateAll
  resultsChan,   \* per caller: buffered channel of {name, result}
  chanCap,       \* per caller: capacity of resultsChan
  results,       \* per caller: results.Results of ValidateAll
  single,        \* per caller: result returned by ValidateEndpoint
  kpc,           \* per caller and validator: position inside ValidateKeys / the worker
  kelapsed,      \* per call: time elapsed since ValidateKeys read the clock
  khook,         \* per call: the client v.newClient is constructing, if any
  kclient,       \* per call: client getClient returned
  kbuilds,       \* per call: v.newClient invocations made by the call
  kprobes,       \* per call: ListObjectsV2 invocations made by the call
  kerr,          \* per call: the error the build or the probe returned
  kres,          \* per call: the *ValidationResult ValidateKeys returned
  kctxAtCall,    \* per call on a context-honouring client: ctx was done at the call
  opsStarted,    \* manager operations started so far
  honoursCtx,    \* the clients honour their context (SDK client) or may ignore it
  probeErrs,     \* the failures the endpoints answer a probe with: "injected" or "any"
  httpStatus,    \* per caller: status code the HTTP handler wrote
  summary,       \* per caller: response.Summary of the /validate handler
  recorded,      \* per caller and endpoint name: RecordResult invocations of its operation
  got,           \* per caller: what GetEndpoints or GetEndpointCount last returned
  cfgNames,      \* cfg.Endpoints: the endpoint names, in configuration order
  anyRequest,    \* requests reach the handlers with any method and path
  req,           \* per caller: the HTTP request its handler is serving
  apc,           \* position of the auto-validation goroutine
  interval,      \* the interval argument of startAutoValidation
  ticker,        \* the time.Ticker of the goroutine and its channel
  rpc,           \* position inside runServer
  srvCtx,        \* the ctx argument of runServer is done
  las,           \* the goroutine running server.ListenAndServe
  errCh,         \* errCh of runServer, buffered with capacity 1
  shutdowns,     \* server.Shutdown invocations
  lasErr,        \* the value server.ListenAndServe returned
  shutErr,       \* the value server.Shutdown returned
  rret,          \* the value runServer returned
  metricsOn,     \* the label sets of the metrics registry are followed
  failureSeries, \* s3_validation_failures_total: its {bucket, error_type} series
  failedResults, \* the {name, error kind} of the failed results handed to the recorder
  cerr,          \* the error handed to classifyValidationError
  ctag,          \* the tag classifyValidationError returned
  cdone          \* classifyValidationError has returned

vars == <<validators, muReaders, client, clientMu, buildCalls, builtClients,
          lastBuild, buildFails, op, target, mpc, ctxCanceled, wg, resultsChan, chanCap,
          results, single, kpc, kelapsed, khook, kclient, kbuilds, kprobes, kerr, kres,
          kctxAtCall, opsStarted, honoursCtx, probeErrs, httpStatus, summary,
          recorded, got, cfgNames, anyRequest, req, apc, interval, ticker,
          rpc, srvCtx, las, errCh, shutdowns, lasErr, shutErr, rret,
          metricsOn, failureSeries, failedResults, cerr, ctag, cdone>>

mgrVars == <<validators, muReaders>>
valVars == <<client, clientMu, buildCalls, builtClients, lastBuild,
            buildFails>>
callerVars == <<op, target, mpc, wg, resultsChan, chanCap, results, single>>
callVars == <<kpc, kelapsed, khook, kclient, kbuilds, kprobes, kerr, kres,
             kctxAtCall>>
envVars == <<honoursCtx, probeErrs, cfgNames, anyRequest, metricsOn>>
metricVars == <<failureSeries, failedResults>>
respVars == <<httpStatus, summary, recorded, got, metricVars>>
loopVars == <<apc, interval, ticker>>
srvVars == <<rpc, srvCtx, las, errCh, shutdowns, lasErr, shutErr, rret>>
classVars == <<cerr, ctag, cdone>>

EmptyMap == [n \in {} |-> NoResult]

\* NewValidatorManager: vm.validators[endpointCfg.Name] = validator for every
\* entry of cfg.Endpoints in turn; a name met again replaces its entry
RECURSIVE RegisterAll(_, _)
RegisterAll(cfg, acc) ==
  IF cfg = <<>> THEN acc
  ELSE RegisterAll(Tail(cfg), acc \cup {Head(cfg)})

NewValidatorManager(cfg) == RegisterAll(cfg, {})

\* configurations whose endpoint names differ, and all configurations
DistinctConfigs == {SubSeq(EndpointList, 1, k) : k \in 0..Len(EndpointList)}
AnyConfigs == UNION {[1..k -> EndpointNames] : k \in 0..Len(EndpointList)}

\* the manager, its validators and its callers after construction from cfg
Constructed(cfg) ==
  /\ cfgNames = cfg
  /\ validators = NewValidatorManager(cfg)
  /\ muReaders = 0
  /\ client = [n \in EndpointNames |-> NoClient]
  /\ clientMu = [n \in EndpointNames |-> NoHolder]
  /\ buildCalls = [n \in EndpointNames |-> 0]
  /\ builtClients = [n \in EndpointNames |-> {}]
  /\ lastBuild = [n \in EndpointNames |-> "none"]
  /\ buildFails = [n \in EndpointNames |-> 0]
  /\ op = [c \in Callers |-> "none"]
  /\ target = [c \in Callers |-> ""]
  /\ mpc = [c \in Callers |-> "idle"]
  /\ ctxCanceled = [c \in Callers |-> FALSE]
  /\ wg = [c \in Callers |-> 0]
  /\ resultsChan = [c \in Callers |-> <<>>]
  /\ chanCap = [c \in Callers |-> 0]
  /\ results = [c \in Callers |-> EmptyMap]
  /\ single = [c \in Callers |-> NoResult]
  /\ kpc = [c \in Callers |-> [n \in EndpointNames |-> "none"]]
  /\ kelapsed = [c \in Callers |-> [n \in EndpointNames |-> 0]]
  /\ khook = [c \in Callers |-> [n \in EndpointNames |-> NoClient]]
  /\ kclient = [c \in Callers |-> [n \in EndpointNames |-> NoClient]]
  /\ kbuilds = [c \in Callers |-> [n \in EndpointNames |-> 0]]
  /\ kprobes = [c \in Callers |-> [n \in EndpointNames |-> 0]]
  /\ kerr = [c \in Callers |-> [n \in EndpointNames |-> NoErr]]
  /\ kres = [c \in Callers |-> [n \in EndpointNames |-> NoResult]]
  /\ kctxAtCall = [c \in Callers |-> [n \in EndpointNames |-> FALSE]]
  /\ opsStarted = 0
  /\ httpStatus = [c \in Callers |-> NoStatus]
  /\ summary = [c \in Callers |-> NoSummary]
  /\ recorded = [c \in Callers |-> NoRecords]
  /\ got = [c \in Callers |-> NoValue]
  /\ req = [c \in Callers |-> NoRequest]
  /\ failureSeries = {}
  /\ failedResults = {}

InitState == \E cfg \in DistinctConfigs : Constructed(cfg)

\* the manager called directly, as the package's tests call it: no request
\* front, no auto-validation loop and no server around it
NoLoop ==
  /\ apc = "free"
  /\ interval = 1
  /\ ticker = "none"

NoServer ==
  /\ rpc = "init"
  /\ srvCtx = FALSE
  /\ las = "idle"
  /\ errCh = <<>>
  /\ shutdowns = 0
  /\ lasErr = NotReturned
  /\ shutErr = NotReturned
  /\ rret = NotReturned

Unwired ==
  /\ anyRequest = FALSE
  /\ NoLoop
  /\ NoServer
  /\ metricsOn = FALSE

\* no classifier call of its own is pending
ClassifierIdle ==
  /\ cerr = NoErr
  /\ ctag = ""
  /\ cdone = TRUE

\* clients that may ignore their context (the stub clients of the tests),
\* answering with the failures the tests inject
Init ==
  /\ InitState
  /\ honoursCtx = FALSE
  /\ probeErrs = "injected"
  /\ ClassifierIdle
  /\ Unwired

\* ----------------------------------------------------------------- helpers
\* time.Since computed as start - now
Since_Negated(c, n) == 0 - kelapsed[c][n]

\* time.Since(start) for the call (c, n): elapsed monotonic time
Since(c, n) == kelapsed[c][n]

\* Duration.Milliseconds(): integer division truncating toward zero
Milliseconds(d) ==
  IF d >= 0 THEN d \div TicksPerMs ELSE 0 - ((0 - d) \div TicksPerMs)

\* the deferred closure of ValidateKeys fills the response time at return
MkResult(c, n, valid, msg, etype) ==
  [IsValid |-> valid, Message |-> msg, Duration |-> Since(c, n),
   ResponseTimeMs |-> Milliseconds(Since(c, n)), ErrorType |-> etype]

\* the three results ValidateKeys builds
\* (variant: the build error run through the classifier)
ConfigErrorResult_Classified(c, n, err) ==
  MkResult(c, n, FALSE, <<"Failed to create AWS client: ", err.text>>,
           classifyValidationError(err))

\* (variant: the build failure returned without an error kind)
ConfigErrorResult_NoKind(c, n, err) ==
  MkResult(c, n, FALSE, <<"Failed to create AWS client: ", err.text>>, "")

ConfigErrorResult(c, n, err) ==
  MkResult(c, n, FALSE, <<"Failed to create AWS client: ", err.text>>,
           errorTypeConfig)

\* (variant: the text of the error used as the error kind)
ProbeFailedResult_RawText(c, n, err) ==
  MkResult(c, n, FALSE, <<"S3 validation failed: ", err.text>>, err.text)

\* (variant: every probe failure tagged unknown)
ProbeFailedResult_Unknown(c, n, err) ==
  MkResult(c, n, FALSE, <<"S3 validation failed: ", err.text>>,
           errorTypeUnknown)

ProbeFailedResult(c, n, err) ==
  MkResult(c, n, FALSE, <<"S3 validation failed: ", err.text>>,
           classifyValidationError(err))

ValidResult(c, n) ==
  MkResult(c, n, TRUE, <<"AWS credentials are valid">>, "")

\* the synthesized result tagged as a classified failure
NotFoundResult_Classified(name) ==
  [IsValid |-> FALSE, Message |-> <<"endpoint '", name, "' not found">>,
   Duration |-> 0, ResponseTimeMs |-> 0,
   ErrorType |-> classifyValidationError(ErrBoom)]

\* the result ValidateEndpoint synthesizes for an unregistered name
NotFoundResult(name) ==
  [IsValid |-> FALSE, Message |-> <<"endpoint '", name, "' not found">>,
   Duration |-> 0, ResponseTimeMs |-> 0, ErrorType |-> ""]

\* context.WithTimeout(ctx, timeout): the derived context is done once the
\* timeout has elapsed or the parent is canceled
\* ValidateKeys called without a timeout on its context
DeadlinePassed_NoTimeout(c, n) == FALSE

DeadlinePassed(c, n) == kelapsed[c][n] >= ValidationTimeout

\* the probe context derived from context.Background() instead of ctx
CtxDone_Detached(c, n) == DeadlinePassed(c, n)

CtxDone(c, n) == DeadlinePassed(c, n) \/ ctxCanceled[c]

\* ctx.Err() of the derived context as a call handed that context reports
\* it: nothing while the context is live, the deadline or the cancellation
\* once it is done
CtxErrors(c, n) ==
  IF ~CtxDone(c, n) THEN {}
  ELSE (IF DeadlinePassed(c, n) THEN {ErrDeadlineExceeded} ELSE {})
         \cup (IF ctxCanceled[c] THEN {ErrCanceled} ELSE {})

\* errors v.newClient may return
BuildErrors == {ErrConfigFailed}

\* the failures the remote endpoint answers a probe with
RemoteErrors == IF probeErrs = "any" THEN KindErrors ELSE InjectedErrors

\* client.ListObjectsV2 may return err for the call (c, n): the error of its
\* context once that is done, or a failure of the remote endpoint, which a
\* client that honours a done context no longer waits for
ProbeErrors(c, n, err) ==
  \/ err \in CtxErrors(c, n)
  \/ ~(honoursCtx /\ CtxDone(c, n)) /\ err \in RemoteErrors

\* client.ListObjectsV2(ctx, input) can return without error: a client that
\* honours ctx does not once ctx is done
ProbeMaySucceed(c, n) == ~(honoursCtx /\ CtxDone(c, n))

\* a probe on a client that honours ctx unwinds as soon as ctx is done: no
\* time passes while such a probe holds a done context
ProbeUnwinding(c, n) ==
  honoursCtx /\ kpc[c][n] = "probe" /\ CtxDone(c, n)

\* one package-level mutex shared by all validators
MutexOf_Shared(n) == EndpointList[1]

\* v.clientMu of validator n
MutexOf(n) == n

\* getClient without the mutex
MutexFree_NoLock(n) == TRUE

\* v.clientMu.Lock() returns only while nobody holds the mutex
MutexFree(n) == clientMu[MutexOf(n)] = NoHolder

\* ValidateAll without the join
WaitGroupDone_NoWait(c) == TRUE

\* wg.Wait() returns when the counter is zero
WaitGroupDone(c) == wg[c] = 0

\* the worker closure reading a shared name instead of its own argument
ChanItem_SharedName(c, n) == [name |-> EndpointList[1], result |-> kres[c][n]]

\* the struct a worker sends on resultsChan
ChanItem(c, n) == [name |-> n, result |-> kres[c][n]]

\* for item := range resultsChan { results.Results[item.name] = item.result }
RECURSIVE Drain(_, _)
Drain(ch, acc) ==
  IF ch = <<>> THEN acc
  ELSE Drain(Tail(ch),
             [k \in DOMAIN acc \cup {Head(ch).name} |->
                IF k = Head(ch).name THEN Head(ch).result ELSE acc[k]])

\* v.client after a build that returned (built, failed)
ClientAfterBuild(n, built, failed) == IF failed THEN client[n] ELSE built

\* the slot invalidated by a failed probe
ClientAfterProbe_Invalidate(n, err) == IF err.nil THEN client[n] ELSE NoClient

\* v.client after a probe: ValidateKeys never touches the slot
ClientAfterProbe(n, err) == client[n]

\* the hook attempted once only, whatever it returned
CacheHit_Once(n) == client[n] # NoClient \/ buildCalls[n] > 0

\* no cache: every call builds
CacheHit_Never(n) == FALSE

\* if v.client != nil { return v.client, nil }
CacheHit(n) == client[n] # NoClient

\* ------------------------------------------------------------ HTTP handlers
StatusOK == 200
StatusMultiStatus == 207
StatusUnauthorized == 401

\* the loop of the /validate handler over results.Results: Successful++ for a
\* valid result, Failed++ for an invalid one
RECURSIVE SummaryOver(_, _, _)
SummaryOver(res, names, acc) ==
  IF names = {} THEN acc
  ELSE LET n == CHOOSE x \in names : TRUE
       IN SummaryOver(res, names \ {n},
                      IF res[n].IsValid
                        THEN [acc EXCEPT !.Successful = @ + 1]
                        ELSE [acc EXCEPT !.Failed = @ + 1])

\* a loop that counts the failed results only
Summary_FailedOnly(res) ==
  [TotalEndpoints |-> Cardinality(DOMAIN res), Successful |-> 0,
   Failed |-> Cardinality({n \in DOMAIN res : ~res[n].IsValid})]

\* response.Summary once the loop is over
Summary(res) ==
  SummaryOver(res, DOMAIN res,
              [TotalEndpoints |-> Cardinality(DOMAIN res),
               Successful |-> 0, Failed |-> 0])

\* a mixed outcome reported like a total failure
StatusCodeAll_NoMulti(sum) ==
  IF sum.Failed > 0 THEN StatusUnauthorized ELSE StatusOK

\* statusCode of the /validate handler
StatusCodeAll(sum) ==
  IF sum.Failed > 0 /\ sum.Successful > 0 THEN StatusMultiStatus
  ELSE IF sum.Failed > 0 THEN StatusUnauthorized
  ELSE StatusOK

\* an invalid result answered like a missing resource
StatusCodeOne_NotFound(r) == IF ~r.IsValid THEN StatusNotFound ELSE StatusOK

\* statusCode of the /validate/{name} handler
StatusCodeOne(r) == IF ~r.IsValid THEN StatusUnauthorized ELSE StatusOK

\* the result recorder invoked twice for a result
RecordResult_Twice(rec, name) == [rec EXCEPT ![name] = @ + 2]

\* one invocation exporter.RecordResult(log, name, result)
RecordResult(rec, name) == [rec EXCEPT ![name] = @ + 1]

\* for endpoint, result := range results.Results { RecordResult(...) }
RECURSIVE RecordOver(_, _)
RecordOver(names, rec) ==
  IF names = {} THEN rec
  ELSE LET n == CHOOSE x \in names : TRUE
       IN RecordOver(names \ {n}, RecordResult(rec, n))

\* metrics.RecordValidationFailure(bucket, errorType): the series with these
\* label values is incremented, so it exists
RecordValidationFailure(series, bucket, errorType) ==
  series \cup {<<bucket, errorType>>}

\* what exporter.RecordResult(log, name, r) does to the failure counter: a
\* failed result increments the series of its name and error kind
RecordFailureOf(series, name, r) ==
  IF r.IsValid THEN series
  ELSE RecordValidationFailure(series, name, r.ErrorType)

\* the same for every entry of a Results map
RECURSIVE RecordFailuresOver(_, _, _)
RecordFailuresOver(names, res, series) ==
  IF names = {} THEN series
  ELSE LET n == CHOOSE x \in names : TRUE
       IN RecordFailuresOver(names \ {n}, res, RecordFailureOf(series, n, res[n]))

\* the failed results among res, as {name, error kind}
FailedIn(res) ==
  {<<n, res[n].ErrorType>> : n \in {m \in DOMAIN res : ~res[m].IsValid}}

\* what follows manager.ValidateAll returning res: the /validate handler
\* records every result, counts it and writes the status; the background
\* task records every result
HandlerRespondAll(c, res) ==
  /\ recorded' = [recorded EXCEPT ![c] = RecordOver(DOMAIN res, NoRecords)]
  /\ IF c \in RequestCallers
       THEN /\ summary' = [summary EXCEPT ![c] = Summary(res)]
            /\ httpStatus' =
                 [httpStatus EXCEPT ![c] = StatusCodeAll(Summary(res))]
       ELSE UNCHANGED <<summary, httpStatus>>
  /\ UNCHANGED got
  /\ IF metricsOn
       THEN /\ failureSeries' = RecordFailuresOver(DOMAIN res, res, failureSeries)
            /\ failedResults' = failedResults \cup FailedIn(res)
       ELSE UNCHANGED metricVars

\* the /validate/{name} handler after manager.ValidateEndpoint(name)
\* returned r: record it, write the status; the response has no summary
HandlerRespondOne(c, name, r) ==
  /\ recorded' = [recorded EXCEPT ![c] = RecordResult(NoRecords, name)]
  /\ httpStatus' = [httpStatus EXCEPT ![c] = StatusCodeOne(r)]
  /\ summary' = [summary EXCEPT ![c] = NoSummary]
  /\ got' = [got EXCEPT ![c] = NoValue]
  /\ IF metricsOn
       THEN /\ failureSeries' = RecordFailureOf(failureSeries, name, r)
            /\ failedResults' =
                 failedResults \cup (IF r.IsValid THEN {} ELSE {<<name, r.ErrorType>>})
       ELSE UNCHANGED metricVars

\* a new operation of caller c starts: nothing written or recorded yet
ResponseReset(c) ==
  /\ httpStatus' = [httpStatus EXCEPT ![c] = NoStatus]
  /\ summary' = [summary EXCEPT ![c] = NoSummary]
  /\ recorded' = [recorded EXCEPT ![c] = NoRecords]
  /\ got' = [got EXCEPT ![c] = NoValue]
  /\ UNCHANGED metricVars

\* ------------------------------------------------------------ request front
StatusBadRequest == 400
StatusMethodNotAllowed == 405

Methods == {"GET", "POST", "DELETE"}

\* r.URL.Path after strings.Split(path, "/")
PathHealth == <<"", "health">>
PathValidate == <<"", "validate">>
Paths ==
  {PathHealth, PathValidate, <<"", "validate", "">>}
    \cup {<<"", "validate", n>> : n \in EndpointNames}

Requests == [method : Methods, path : Paths]

\* the handler the mux of createServer picks: "/health" and "/validate" match
\* exactly, "/validate/" matches every path below it
Route(path) ==
  IF path = PathHealth THEN "health"
  ELSE IF path = PathValidate THEN "all"
  ELSE "one"

\* every method let through
MethodAllowed_Any(route, method) == TRUE

\* the r.Method test that opens each handler
MethodAllowed(route, method) ==
  IF route = "health" THEN method = "GET"
  ELSE IF route = "all" THEN method = "POST"
  ELSE method = "POST" \/ method = "GET"

\* endpointName := parts[len(parts)-1]
EndpointName(parts) == parts[Len(parts)]

\* the empty name handed on to the manager
NameMissing_Never(parts) == FALSE

\* len(parts) < 3, or endpointName == ""
NameMissing(parts) == Len(parts) < 3 \/ EndpointName(parts) = ""

\* the handler of caller c has let its request through and not answered yet
Pending(c) == req[c] # NoRequest /\ httpStatus[c] = NoStatus

\* the manager operation of the given route (and endpoint name) may start
\* for caller c: always when the manager is called directly, and for the
\* pending request of that route otherwise
Serves(c, route, name) ==
  (anyRequest /\ c \in RequestCallers) =>
    /\ Pending(c)
    /\ Route(req[c].path) = route
    /\ route = "one" => EndpointName(req[c].path) = name

\* a request reaches the handler of caller c once the previous one is answered
Receives(c, r) ==
  /\ anyRequest
  /\ c \in RequestCallers
  /\ r \in Requests
  /\ mpc[c] \in {"idle", "returned"}
  /\ ~Pending(c)
  /\ req' = [req EXCEPT ![c] = r]

\* http.Error(w, "Method not allowed", http.StatusMethodNotAllowed); return
HandlerMethodNotAllowed(c, r) ==
  /\ Receives(c, r)
  /\ ~MethodAllowed(Route(r.path), r.method)
  /\ httpStatus' = [httpStatus EXCEPT ![c] = StatusMethodNotAllowed]
  /\ summary' = [summary EXCEPT ![c] = NoSummary]
  /\ recorded' = [recorded EXCEPT ![c] = NoRecords]
  /\ got' = [got EXCEPT ![c] = NoValue]
  /\ UNCHANGED metricVars
  /\ UNCHANGED <<mgrVars, valVars, callerVars, ctxCanceled, callVars, opsStarted,
                 envVars, loopVars, srvVars, classVars>>

\* http.Error(w, "endpoint name ...", http.StatusBadRequest); return
HandlerBadRequest(c, r) ==
  /\ Receives(c, r)
  /\ MethodAllowed(Route(r.path), r.method)
  /\ Route(r.path) = "one"
  /\ NameMissing(r.path)
  /\ httpStatus' = [httpStatus EXCEPT ![c] = StatusBadRequest]
  /\ summary' = [summary EXCEPT ![c] = NoSummary]
  /\ recorded' = [recorded EXCEPT ![c] = NoRecords]
  /\ got' = [got EXCEPT ![c] = NoValue]
  /\ UNCHANGED metricVars
  /\ UNCHANGED <<mgrVars, valVars, callerVars, ctxCanceled, callVars, opsStarted,
                 envVars, loopVars, srvVars, classVars>>

\* len(vm.validators) and the keys of vm.validators, read under vm.mu.RLock
GetEndpointCount == Cardinality(validators)
GetEndpoints == validators

\* GET /health: 200 with the endpoint count in the body
HandlerHealth(c, r) ==
  /\ Receives(c, r)
  /\ MethodAllowed(Route(r.path), r.method)
  /\ Route(r.path) = "health"
  /\ httpStatus' = [httpStatus EXCEPT ![c] = StatusOK]
  /\ summary' = [summary EXCEPT ![c] = NoSummary]
  /\ recorded' = [recorded EXCEPT ![c] = NoRecords]
  /\ got' = [got EXCEPT ![c] =
               [op |-> "health", count |-> GetEndpointCount, names |-> {}]]
  /\ UNCHANGED metricVars
  /\ UNCHANGED <<mgrVars, valVars, callerVars, ctxCanceled, callVars, opsStarted,
                 envVars, loopVars, srvVars, classVars>>

\* the request passes the checks of the /validate or /validate/{name}
\* handler, which goes on to call the manager
HandlerAccept(c, r) ==
  /\ Receives(c, r)
  /\ MethodAllowed(Route(r.path), r.method)
  /\ Route(r.path) \in {"all", "one"}
  /\ Route(r.path) = "one" => ~NameMissing(r.path)
  /\ opsStarted < MaxOps
  /\ ResponseReset(c)
  /\ UNCHANGED <<mgrVars, valVars, callerVars, ctxCanceled, callVars, opsStarted,
                 envVars, loopVars, srvVars, classVars>>

\* the ValidateAll calls of caller c are those of the auto-validation
\* goroutine, whose loop is part of the model
Looped(c) == c \notin RequestCallers /\ apc # "free"

\* ------------------------------------------------ ValidatorManager actions
ResetCalls(c) ==
  /\ kpc' = [kpc EXCEPT ![c] = [n \in EndpointNames |-> "none"]]
  /\ kelapsed' = [kelapsed EXCEPT ![c] = [n \in EndpointNames |-> 0]]
  /\ khook' = [khook EXCEPT ![c] = [n \in EndpointNames |-> NoClient]]
  /\ kclient' = [kclient EXCEPT ![c] = [n \in EndpointNames |-> NoClient]]
  /\ kbuilds' = [kbuilds EXCEPT ![c] = [n \in EndpointNames |-> 0]]
  /\ kprobes' = [kprobes EXCEPT ![c] = [n \in EndpointNames |-> 0]]
  /\ kerr' = [kerr EXCEPT ![c] = [n \in EndpointNames |-> NoErr]]
  /\ kres' = [kres EXCEPT ![c] = [n \in EndpointNames |-> NoResult]]
  /\ kctxAtCall' = [kctxAtCall EXCEPT ![c] = [n \in EndpointNames |-> FALSE]]

\* a results channel one slot short of the number of validators
ChanCapacity_OneShort == Cardinality(validators) - 1

\* make(chan ..., len(vm.validators))
ChanCapacity == Cardinality(validators)

\* ValidateAll entry: results, resultsChan, wg are made and vm.mu is read-locked
ValidateAllBegin(c) ==
  /\ mpc[c] \in {"idle", "returned"}
  /\ opsStarted < MaxOps
  /\ Serves(c, "all", "")
  /\ Looped(c) => apc = "call"
  /\ apc' = IF Looped(c) THEN "validating" ELSE apc
  /\ opsStarted' = opsStarted + 1
  /\ op' = [op EXCEPT ![c] = "all"]
  /\ target' = [target EXCEPT ![c] = ""]
  /\ mpc' = [mpc EXCEPT ![c] = "spawning"]
  /\ ctxCanceled' = [ctxCanceled EXCEPT ![c] = IF Looped(c) THEN @ ELSE FALSE]
  /\ wg' = [wg EXCEPT ![c] = 0]
  /\ resultsChan' = [resultsChan EXCEPT ![c] = <<>>]
  /\ chanCap' = [chanCap EXCEPT ![c] = ChanCapacity]
  /\ results' = [results EXCEPT ![c] = EmptyMap]
  /\ single' = [single EXCEPT ![c] = NoResult]
  /\ muReaders' = muReaders + 1
  /\ ResetCalls(c)
  /\ ResponseReset(c)
  /\ UNCHANGED <<validators, valVars, envVars, req, interval, ticker, srvVars,
                 classVars>>

\* one iteration of the range loop: wg.Add(1); go func(name, validator)
ValidateAllSpawn(c, n) ==
  /\ mpc[c] = "spawning"
  /\ n \in validators
  /\ kpc[c][n] = "none"
  /\ wg' = [wg EXCEPT ![c] = @ + 1]
  /\ kpc' = [kpc EXCEPT ![c][n] = "spawned"]
  /\ UNCHANGED <<mgrVars, valVars, op, target, mpc, ctxCanceled, resultsChan,
                 chanCap, results, single, kelapsed, khook, kclient, kbuilds, kprobes,
                 kerr, kres, kctxAtCall, opsStarted, envVars, req, loopVars, srvVars, respVars,
                 classVars>>

\* the loop is over: vm.mu.RUnlock(), then wg.Wait()
ValidateAllRUnlock(c) ==
  /\ mpc[c] = "spawning"
  /\ \A n \in validators : kpc[c][n] # "none"
  /\ muReaders' = muReaders - 1
  /\ mpc' = [mpc EXCEPT ![c] = "waiting"]
  /\ UNCHANGED <<validators, valVars, op, target, ctxCanceled, wg, resultsChan,
                 chanCap, results, single, callVars, opsStarted, envVars, req, loopVars, srvVars,
                 respVars, classVars>>

\* wg.Wait() returns; close(resultsChan); drain it into results.Results; return
ValidateAllJoin(c) ==
  /\ mpc[c] = "waiting"
  /\ WaitGroupDone(c)
  /\ results' = [results EXCEPT ![c] = Drain(resultsChan[c], EmptyMap)]
  /\ resultsChan' = [resultsChan EXCEPT ![c] = <<>>]
  /\ mpc' = [mpc EXCEPT ![c] = "returned"]
  /\ HandlerRespondAll(c, Drain(resultsChan[c], EmptyMap))
  /\ UNCHANGED <<mgrVars, valVars, op, target, ctxCanceled, wg, chanCap,
                 single, callVars, opsStarted, envVars, req, loopVars, srvVars, classVars>>

\* ValidateEndpoint with an unregistered name: the synthesized result
ValidateEndpointMissing(c, name) ==
  /\ c \in RequestCallers
  /\ mpc[c] \in {"idle", "returned"}
  /\ opsStarted < MaxOps
  /\ name \notin validators
  /\ Serves(c, "one", name)
  /\ opsStarted' = opsStarted + 1
  /\ op' = [op EXCEPT ![c] = "one"]
  /\ target' = [target EXCEPT ![c] = name]
  /\ mpc' = [mpc EXCEPT ![c] = "returned"]
  /\ ctxCanceled' = [ctxCanceled EXCEPT ![c] = FALSE]
  /\ wg' = [wg EXCEPT ![c] = 0]
  /\ resultsChan' = [resultsChan EXCEPT ![c] = <<>>]
  /\ chanCap' = [chanCap EXCEPT ![c] = 0]
  /\ results' = [results EXCEPT ![c] = EmptyMap]
  /\ single' = [single EXCEPT ![c] = NotFoundResult(name)]
  /\ ResetCalls(c)
  /\ HandlerRespondOne(c, name, NotFoundResult(name))
  /\ UNCHANGED <<mgrVars, valVars, envVars, req, loopVars, srvVars, classVars>>

\* ValidateEndpoint with a registered name: delegate to validator.ValidateKeys,
\* whose first statements read the clock
ValidateEndpointBegin(c, name) ==
  /\ c \in RequestCallers
  /\ mpc[c] \in {"idle", "returned"}
  /\ opsStarted < MaxOps
  /\ name \in validators
  /\ Serves(c, "one", name)
  /\ opsStarted' = opsStarted + 1
  /\ op' = [op EXCEPT ![c] = "one"]
  /\ target' = [target EXCEPT ![c] = name]
  /\ mpc' = [mpc EXCEPT ![c] = "validating"]
  /\ ctxCanceled' = [ctxCanceled EXCEPT ![c] = FALSE]
  /\ wg' = [wg EXCEPT ![c] = 0]
  /\ resultsChan' = [resultsChan EXCEPT ![c] = <<>>]
  /\ chanCap' = [chanCap EXCEPT ![c] = 0]
  /\ results' = [results EXCEPT ![c] = EmptyMap]
  /\ single' = [single EXCEPT ![c] = NoResult]
  /\ kpc' = [kpc EXCEPT ![c] = [n \in EndpointNames |->
                                  IF n = name THEN "lock" ELSE "none"]]
  /\ kelapsed' = [kelapsed EXCEPT ![c] = [n \in EndpointNames |-> 0]]
  /\ khook' = [khook EXCEPT ![c] = [n \in EndpointNames |-> NoClient]]
  /\ kclient' = [kclient EXCEPT ![c] = [n \in EndpointNames |-> NoClient]]
  /\ kbuilds' = [kbuilds EXCEPT ![c] = [n \in EndpointNames |-> 0]]
  /\ kprobes' = [kprobes EXCEPT ![c] = [n \in EndpointNames |-> 0]]
  /\ kerr' = [kerr EXCEPT ![c] = [n \in EndpointNames |-> NoErr]]
  /\ kres' = [kres EXCEPT ![c] = [n \in EndpointNames |-> NoResult]]
  /\ kctxAtCall' = [kctxAtCall EXCEPT ![c] = [n \in EndpointNames |-> FALSE]]
  /\ ResponseReset(c)
  /\ UNCHANGED <<mgrVars, valVars, envVars, req, loopVars, srvVars, classVars>>

\* ----------------------------------------------------- S3Validator actions
\* getClient entered without taking the lock
Lock_Skipped(c, n) == clientMu

\* v.clientMu.Lock() by the call of caller c
Lock(c, n) == [clientMu EXCEPT ![MutexOf(n)] = c]

\* a return of getClient that leaves the lock held
Unlock_Forgotten(c, n) == clientMu

\* the deferred v.clientMu.Unlock() of getClient
Unlock(c, n) == [clientMu EXCEPT ![MutexOf(n)] = NoHolder]

\* a call that issues the probe a second time
IssueProbe_Twice(k) == k + 2

\* the one client.ListObjectsV2(ctx, input) of ValidateKeys, counted
IssueProbe(k) == k + 1

\* the worker goroutine starts: ValidateKeys reads the clock and derives the
\* timeout context
ValidateKeysBegin(c, n) ==
  /\ kpc[c][n] = "spawned"
  /\ kelapsed' = [kelapsed EXCEPT ![c][n] = 0]
  /\ kpc' = [kpc EXCEPT ![c][n] = "lock"]
  /\ kctxAtCall' = [kctxAtCall EXCEPT ![c][n] = honoursCtx /\ ctxCanceled[c]]
  /\ UNCHANGED <<mgrVars, valVars, callerVars, ctxCanceled, khook, kclient, kbuilds,
                 kprobes, kerr, kres, opsStarted, envVars, req, loopVars, srvVars, respVars, classVars>>

\* getClient with the slot populated: lock, return v.client, unlock; then
\* ValidateKeys issues the probe
GetClientCached(c, n) ==
  /\ kpc[c][n] = "lock"
  /\ MutexFree(n)
  /\ CacheHit(n)
  /\ kclient' = [kclient EXCEPT ![c][n] = client[n]]
  /\ kprobes' = [kprobes EXCEPT ![c][n] = IssueProbe(@)]
  /\ kpc' = [kpc EXCEPT ![c][n] = "probe"]
  /\ UNCHANGED <<mgrVars, valVars, callerVars, ctxCanceled, kelapsed, khook,
                 kbuilds, kerr, kres, kctxAtCall, opsStarted, envVars, req, loopVars, srvVars,
                 respVars, classVars>>

\* getClient with the slot empty: lock and call v.newClient(ctx)
GetClientBuild(c, n) ==
  /\ kpc[c][n] = "lock"
  /\ MutexFree(n)
  /\ ~CacheHit(n)
  /\ clientMu' = Lock(c, n)
  /\ buildCalls' = [buildCalls EXCEPT ![n] = @ + 1]
  /\ kbuilds' = [kbuilds EXCEPT ![c][n] = @ + 1]
  /\ khook' = [khook EXCEPT ![c][n] = buildCalls[n] + 1]
  /\ kpc' = [kpc EXCEPT ![c][n] = "build"]
  /\ UNCHANGED <<mgrVars, client, builtClients, lastBuild, buildFails,
                 callerVars, ctxCanceled, kelapsed, kclient, kprobes, kerr, kres,
                 kctxAtCall, opsStarted, envVars, req, loopVars, srvVars, respVars, classVars>>

\* ValidateKeys returns res: the worker of ValidateAll goes on to send it,
\* ValidateEndpoint returns it to its caller
KeysReturn(c, n, res) ==
  /\ kres' = [kres EXCEPT ![c][n] = res]
  /\ kelapsed' = [kelapsed EXCEPT ![c][n] = 0]
  /\ IF op[c] = "all"
       THEN /\ kpc' = [kpc EXCEPT ![c][n] = "send"]
            /\ UNCHANGED <<single, mpc, respVars>>
       ELSE /\ kpc' = [kpc EXCEPT ![c][n] = "done"]
            /\ single' = [single EXCEPT ![c] = res]
            /\ mpc' = [mpc EXCEPT ![c] = "returned"]
            /\ HandlerRespondOne(c, n, res)

\* v.newClient returns a client: cache it, unlock, issue the probe
BuildSucceed(c, n) ==
  /\ kpc[c][n] = "build"
  /\ client' = [client EXCEPT ![n] = ClientAfterBuild(n, khook[c][n], FALSE)]
  /\ builtClients' = [builtClients EXCEPT ![n] = @ \cup {khook[c][n]}]
  /\ lastBuild' = [lastBuild EXCEPT ![n] = "ok"]
  /\ clientMu' = Unlock(c, n)
  /\ kclient' = [kclient EXCEPT ![c][n] = khook[c][n]]
  /\ khook' = [khook EXCEPT ![c][n] = NoClient]
  /\ kprobes' = [kprobes EXCEPT ![c][n] = IssueProbe(@)]
  /\ kpc' = [kpc EXCEPT ![c][n] = "probe"]
  /\ UNCHANGED <<mgrVars, buildCalls, buildFails, callerVars, ctxCanceled,
                 kelapsed, kbuilds, kerr, kres, kctxAtCall, opsStarted, envVars, req, loopVars, srvVars,
                 respVars, classVars>>

\* v.newClient returns an error: unlock, ValidateKeys returns config_error
BuildFail(c, n, err) ==
  /\ kpc[c][n] = "build"
  /\ err \in BuildErrors
  /\ client' = [client EXCEPT ![n] = ClientAfterBuild(n, NoClient, TRUE)]
  /\ lastBuild' = [lastBuild EXCEPT ![n] = "fail"]
  /\ buildFails' = [buildFails EXCEPT ![n] = @ + 1]
  /\ clientMu' = Unlock(c, n)
  /\ khook' = [khook EXCEPT ![c][n] = NoClient]
  /\ kerr' = [kerr EXCEPT ![c][n] = err]
  /\ KeysReturn(c, n, ConfigErrorResult(c, n, err))
  /\ UNCHANGED <<mgrVars, buildCalls, builtClients, op, target, ctxCanceled,
                 wg, resultsChan, chanCap, results, kclient, kbuilds,
                 kprobes, kctxAtCall, opsStarted, envVars, req, loopVars, srvVars, classVars>>

\* client.ListObjectsV2 returns an error
ProbeFail(c, n, err) ==
  /\ kpc[c][n] = "probe"
  /\ ProbeErrors(c, n, err)
  /\ client' = [client EXCEPT ![n] = ClientAfterProbe(n, err)]
  /\ kerr' = [kerr EXCEPT ![c][n] = err]
  /\ KeysReturn(c, n, ProbeFailedResult(c, n, err))
  /\ UNCHANGED <<mgrVars, clientMu, buildCalls, builtClients, lastBuild,
                 buildFails, op,
                 target, ctxCanceled, wg, resultsChan, chanCap, results,
                 khook, kclient, kbuilds, kprobes, kctxAtCall, opsStarted,
                 envVars, req, loopVars, srvVars, classVars>>

\* client.ListObjectsV2 returns without error
ProbeSucceed(c, n) ==
  /\ kpc[c][n] = "probe"
  /\ ProbeMaySucceed(c, n)
  /\ client' = [client EXCEPT ![n] = ClientAfterProbe(n, NoErr)]
  /\ KeysReturn(c, n, ValidResult(c, n))
  /\ UNCHANGED <<mgrVars, clientMu, buildCalls, builtClients, lastBuild,
                 buildFails, op,
                 target, ctxCanceled, wg, resultsChan, chanCap, results,
                 khook, kclient, kbuilds, kprobes, kerr, kctxAtCall, opsStarted,
                 envVars, req, loopVars, srvVars, classVars>>

\* the worker sends {endpointName, result} on resultsChan, then wg.Done()
WorkerSend(c, n) ==
  /\ kpc[c][n] = "send"
  /\ Len(resultsChan[c]) < chanCap[c]
  /\ resultsChan' = [resultsChan EXCEPT ![c] = Append(@, ChanItem(c, n))]
  /\ wg' = [wg EXCEPT ![c] = @ - 1]
  /\ kpc' = [kpc EXCEPT ![c][n] = "done"]
  /\ UNCHANGED <<mgrVars, valVars, op, target, mpc, ctxCanceled, chanCap,
                 results, single, kelapsed, khook, kclient, kbuilds, kprobes, kerr,
                 kres, kctxAtCall, opsStarted, envVars, req, loopVars, srvVars, respVars, classVars>>

\* ------------------------------------------------------------- environment
\* the caller's context is canceled while its operation is in flight
CancelCtx(c) ==
  /\ mpc[c] \in {"spawning", "waiting", "validating"}
  /\ ~ctxCanceled[c]
  /\ ctxCanceled' = [ctxCanceled EXCEPT ![c] = TRUE]
  /\ UNCHANGED <<mgrVars, valVars, callerVars, callVars, opsStarted, envVars, req, loopVars, srvVars,
                 respVars, classVars>>

\* the wall clock advances by one tick for every ValidateKeys call in flight
InFlight(c, n) == kpc[c][n] \in {"lock", "build", "probe"}

Tick ==
  /\ \E c \in Callers, n \in EndpointNames : InFlight(c, n)
  /\ \A c \in Callers, n \in EndpointNames :
       InFlight(c, n) => kelapsed[c][n] < MaxElapsed
  /\ \A c \in Callers, n \in EndpointNames : ~ProbeUnwinding(c, n)
  /\ kelapsed' = [c \in Callers |-> [n \in EndpointNames |->
                    IF InFlight(c, n) THEN kelapsed[c][n] + 1
                    ELSE kelapsed[c][n]]]
  /\ UNCHANGED <<mgrVars, valVars, callerVars, ctxCanceled, kpc, khook, kclient,
                 kbuilds, kprobes, kerr, kres, kctxAtCall, opsStarted, envVars, req, loopVars, srvVars,
                 respVars, classVars>>

\* getClient step by step.  v.clientMu.Lock() returns: the call holds the lock
GetClientLock(c, n) ==
  /\ kpc[c][n] = "lock"
  /\ MutexFree(n)
  /\ clientMu' = Lock(c, n)
  /\ kpc' = [kpc EXCEPT ![c][n] = "locked"]
  /\ UNCHANGED <<mgrVars, client, buildCalls, builtClients, lastBuild, buildFails,
                 callerVars, ctxCanceled, kelapsed, khook, kclient, kbuilds, kprobes,
                 kerr, kres, kctxAtCall, opsStarted, envVars, req, loopVars, srvVars,
                 respVars, classVars>>

\* v.client != nil: return it, the deferred Unlock runs, ValidateKeys issues
\* the probe
GetClientHit(c, n) ==
  /\ kpc[c][n] = "locked"
  /\ CacheHit(n)
  /\ kclient' = [kclient EXCEPT ![c][n] = client[n]]
  /\ clientMu' = Unlock(c, n)
  /\ kprobes' = [kprobes EXCEPT ![c][n] = IssueProbe(@)]
  /\ kpc' = [kpc EXCEPT ![c][n] = "probe"]
  /\ UNCHANGED <<mgrVars, client, buildCalls, builtClients, lastBuild, buildFails,
                 callerVars, ctxCanceled, kelapsed, khook, kbuilds, kerr, kres,
                 kctxAtCall, opsStarted, envVars, req, loopVars, srvVars, respVars,
                 classVars>>

\* v.client == nil: v.newClient(ctx) is called with the lock held
GetClientMiss(c, n) ==
  /\ kpc[c][n] = "locked"
  /\ ~CacheHit(n)
  /\ buildCalls' = [buildCalls EXCEPT ![n] = @ + 1]
  /\ kbuilds' = [kbuilds EXCEPT ![c][n] = @ + 1]
  /\ khook' = [khook EXCEPT ![c][n] = buildCalls[n] + 1]
  /\ kpc' = [kpc EXCEPT ![c][n] = "build"]
  /\ UNCHANGED <<mgrVars, client, clientMu, builtClients, lastBuild, buildFails,
                 callerVars, ctxCanceled, kelapsed, kclient, kprobes, kerr, kres,
                 kctxAtCall, opsStarted, envVars, req, loopVars, srvVars, respVars,
                 classVars>>

\* every step a ValidateAll of caller c (and its ValidateKeys calls) can take
BatchStep(c) ==
  \/ ValidateAllBegin(c)
  \/ \E n \in EndpointNames : ValidateAllSpawn(c, n)
  \/ ValidateAllRUnlock(c)
  \/ ValidateAllJoin(c)
  \/ \E n \in EndpointNames : ValidateKeysBegin(c, n)
  \/ \E n \in EndpointNames : GetClientCached(c, n)
  \/ \E n \in EndpointNames : GetClientBuild(c, n)
  \/ \E n \in EndpointNames : BuildSucceed(c, n)
  \/ \E n \in EndpointNames, e \in BuildErrors : BuildFail(c, n, e)
  \/ \E n \in EndpointNames : \E e \in RemoteErrors : ProbeFail(c, n, e)
  \/ \E n \in EndpointNames : \E e \in {ErrDeadlineExceeded, ErrCanceled} :
       ProbeFail(c, n, e)
  \/ \E n \in EndpointNames : ProbeSucceed(c, n)
  \/ \E n \in EndpointNames : WorkerSend(c, n)

\* every step a caller's operation (and its ValidateKeys calls) can take
CallerStep(c) ==
  \/ BatchStep(c)
  \/ \E n \in EndpointNames : ValidateEndpointMissing(c, n)
  \/ \E n \in EndpointNames : ValidateEndpointBegin(c, n)

\* the steps of ValidateKeys with getClient taken step by step
KeysStep(c, n) ==
  \/ ValidateKeysBegin(c, n)
  \/ GetClientLock(c, n)
  \/ GetClientHit(c, n)
  \/ GetClientMiss(c, n)
  \/ BuildSucceed(c, n)
  \/ \E e \in BuildErrors : BuildFail(c, n, e)
  \/ \E e \in RemoteErrors : ProbeFail(c, n, e)
  \/ ProbeSucceed(c, n)

\* the steps of the manager that start, spawn, join and deliver
ManagerStep(c) ==
  \/ ValidateAllBegin(c)
  \/ \E n \in EndpointNames : ValidateAllSpawn(c, n)
  \/ ValidateAllRUnlock(c)
  \/ ValidateAllJoin(c)
  \/ \E n \in EndpointNames : ValidateEndpointMissing(c, n)
  \/ \E n \in EndpointNames : ValidateEndpointBegin(c, n)
  \/ \E n \in EndpointNames : WorkerSend(c, n)

\* a call in flight proceeds: the scheduler runs every goroutine that can
\* run, the build hook and the probe return, and a goroutine waiting for
\* v.clientMu gets it (sync.Mutex hands the lock to a starving waiter)
FairCalls(c) ==
  /\ \A n \in EndpointNames :
       /\ WF_vars(ValidateAllSpawn(c, n))
       /\ WF_vars(ValidateKeysBegin(c, n))
       /\ SF_vars(GetClientLock(c, n))
       /\ WF_vars(GetClientHit(c, n))
       /\ WF_vars(GetClientMiss(c, n))
       /\ WF_vars(BuildSucceed(c, n) \/ \E e \in BuildErrors : BuildFail(c, n, e))
       /\ WF_vars(ProbeSucceed(c, n) \/ \E e \in RemoteErrors : ProbeFail(c, n, e))
       /\ WF_vars(WorkerSend(c, n))
  /\ WF_vars(ValidateAllRUnlock(c))
  /\ WF_vars(ValidateAllJoin(c))

\* both callers on a manager of at most one endpoint, so that their
\* ValidateKeys calls meet on the same validator
NextLock ==
  \/ \E c \in Callers : ManagerStep(c)
  \/ \E c \in Callers, n \in EndpointNames : KeysStep(c, n)

\* one request at a time on a manager of any number of endpoints
NextJoin ==
  \/ \E c \in RequestCallers : ManagerStep(c)
  \/ \E c \in RequestCallers, n \in EndpointNames : KeysStep(c, n)

\* both callers on a manager of at most one endpoint
Init1 == Init /\ Cardinality(validators) <= 1

Next ==
  \/ \E c \in Callers : CallerStep(c)
  \/ \E c \in Callers : CancelCtx(c)
  \/ Tick

Spec == Init1 /\ [][Next]_vars

\* one request at a time on a manager of any number of endpoints
NextBatch ==
  \/ \E c \in RequestCallers : CallerStep(c)
  \/ \E c \in RequestCallers : CancelCtx(c)
  \/ Tick

SpecBatch == Init /\ [][NextBatch]_vars

SpecLock == Init1 /\ [][NextLock]_vars
SpecLockLive == SpecLock /\ \A c \in Callers : FairCalls(c)

SpecJoin == Init /\ [][NextJoin]_vars
SpecJoinLive == SpecJoin /\ \A c \in RequestCallers : FairCalls(c)

\* both callers on a manager of at most one endpoint whose client is the SDK
\* client, which honours the context handed to ListObjectsV2
InitCtx ==
  /\ InitState
  /\ Cardinality(validators) <= 1
  /\ honoursCtx = TRUE
  /\ probeErrs = "injected"
  /\ ClassifierIdle
  /\ Unwired

SpecCtx == InitCtx /\ [][Next]_vars

\* one request at a time, of any method and path, on a manager of any
\* number of endpoints
InitHttp ==
  /\ InitState
  /\ honoursCtx = FALSE
  /\ probeErrs = "injected"
  /\ ClassifierIdle
  /\ anyRequest = TRUE
  /\ NoLoop
  /\ NoServer
  /\ metricsOn = FALSE

NextHttp ==
  \/ \E c \in RequestCallers, r \in Requests : HandlerMethodNotAllowed(c, r)
  \/ \E c \in RequestCallers, r \in Requests : HandlerBadRequest(c, r)
  \/ \E c \in RequestCallers, r \in Requests : HandlerHealth(c, r)
  \/ \E c \in RequestCallers, r \in Requests : HandlerAccept(c, r)
  \/ NextBatch

SpecHttp == InitHttp /\ [][NextHttp]_vars

\* ------------------------------------------------------------ introspection
\* vm.GetEndpointCount() called between the operations of caller c
CallGetEndpointCount(c) ==
  /\ mpc[c] \in {"idle", "returned"}
  /\ got' = [got EXCEPT ![c] =
               [op |-> "count", count |-> GetEndpointCount, names |-> {}]]
  /\ UNCHANGED <<mgrVars, valVars, callerVars, ctxCanceled, callVars, opsStarted,
                 envVars, httpStatus, summary, recorded, metricVars, req, loopVars,
                 srvVars, classVars>>

\* vm.GetEndpoints() called between the operations of caller c
CallGetEndpoints(c) ==
  /\ mpc[c] \in {"idle", "returned"}
  /\ got' = [got EXCEPT ![c] =
               [op |-> "names", count |-> Cardinality(GetEndpoints),
                names |-> GetEndpoints]]
  /\ UNCHANGED <<mgrVars, valVars, callerVars, ctxCanceled, callVars, opsStarted,
                 envVars, httpStatus, summary, recorded, metricVars, req, loopVars,
                 srvVars, classVars>>

\* one caller on a manager constructed from any configuration, endpoint
\* names repeated or not
InitGetters ==
  /\ \E cfg \in AnyConfigs : Constructed(cfg)
  /\ honoursCtx = FALSE
  /\ probeErrs = "injected"
  /\ ClassifierIdle
  /\ Unwired

NextGetters ==
  \/ \E c \in RequestCallers : CallGetEndpointCount(c)
  \/ \E c \in RequestCallers : CallGetEndpoints(c)
  \/ NextBatch

SpecGetters == InitGetters /\ [][NextGetters]_vars

\* ------------------------------------------------------- startAutoValidation
LoopCallers == Callers \ RequestCallers
Intervals == {0 - 1, 0, 1}

\* only a negative interval disables the loop
IntervalDisabled_Negative(i) == i < 0

\* if interval <= 0 { return }
IntervalDisabled(i) == i <= 0

\* the context test of runValidation left out
CtxDoneAtCheck_Ignored(c) == FALSE

\* select { case <-ctx.Done(): return; default: } at the top of runValidation
CtxDoneAtCheck(c) == ctxCanceled[c]

\* the ticker never delivers
TickDue_Never(t) == FALSE

\* the ticker delivers on ticker.C once the interval has passed and the
\* channel (capacity 1) is empty
TickDue(t) == t = "armed"

\* a tick handled wherever the goroutine is
AtSelect_Anywhere(p) == p \in {"select", "validating"}

\* the goroutine is blocked in the select of its for loop
AtSelect(p) == p = "select"

\* runValidation has returned: the first time the ticker is created, later
\* the loop goes round
TickerAfterRun(t) == IF t = "none" THEN "armed" ELSE t

\* startAutoValidation: return at once for a disabled interval, start the
\* goroutine otherwise, whose first statement is runValidation()
StartAutoValidation ==
  /\ apc = "start"
  /\ apc' = IF IntervalDisabled(interval) THEN "off" ELSE "check"
  /\ UNCHANGED <<mgrVars, valVars, callerVars, ctxCanceled, callVars, opsStarted,
                 envVars, respVars, req, interval, ticker, srvVars, classVars>>

\* runValidation finds its context done and returns
RunValidationSkip(c) ==
  /\ apc = "check"
  /\ CtxDoneAtCheck(c)
  /\ apc' = "select"
  /\ ticker' = TickerAfterRun(ticker)
  /\ UNCHANGED <<mgrVars, valVars, callerVars, ctxCanceled, callVars, opsStarted,
                 envVars, respVars, req, interval, srvVars, classVars>>

\* runValidation finds its context live and goes on to manager.ValidateAll
RunValidationCheck(c) ==
  /\ apc = "check"
  /\ ~CtxDoneAtCheck(c)
  /\ opsStarted < MaxOps
  /\ apc' = "call"
  /\ UNCHANGED <<mgrVars, valVars, callerVars, ctxCanceled, callVars, opsStarted,
                 envVars, respVars, req, interval, ticker, srvVars, classVars>>

\* ValidateAll has returned and its results are recorded: runValidation returns
RunValidationReturn(c) ==
  /\ apc = "validating"
  /\ mpc[c] = "returned"
  /\ apc' = "select"
  /\ ticker' = TickerAfterRun(ticker)
  /\ UNCHANGED <<mgrVars, valVars, callerVars, ctxCanceled, callVars, opsStarted,
                 envVars, respVars, req, interval, srvVars, classVars>>

\* the interval has passed: the ticker puts a tick on ticker.C
TickerFire ==
  /\ TickDue(ticker)
  /\ ticker' = "ready"
  /\ UNCHANGED <<mgrVars, valVars, callerVars, ctxCanceled, callVars, opsStarted,
                 envVars, respVars, req, apc, interval, srvVars, classVars>>

\* case <-ticker.C: runValidation()
SelectTick ==
  /\ AtSelect(apc)
  /\ ticker = "ready"
  /\ ticker' = "armed"
  /\ apc' = "check"
  /\ UNCHANGED <<mgrVars, valVars, callerVars, ctxCanceled, callVars, opsStarted,
                 envVars, respVars, req, interval, srvVars, classVars>>

\* case <-ctx.Done(): return, with the deferred ticker.Stop()
SelectDone(c) ==
  /\ AtSelect(apc)
  /\ ctxCanceled[c]
  /\ apc' = "exit"
  /\ ticker' = "stopped"
  /\ UNCHANGED <<mgrVars, valVars, callerVars, ctxCanceled, callVars, opsStarted,
                 envVars, respVars, req, interval, srvVars, classVars>>

\* the context handed to startAutoValidation is canceled (a signal arrives)
CancelBackground(c) ==
  /\ Looped(c)
  /\ ~ctxCanceled[c]
  /\ ctxCanceled' = [ctxCanceled EXCEPT ![c] = TRUE]
  /\ UNCHANGED <<mgrVars, valVars, callerVars, callVars, opsStarted, envVars,
                 respVars, req, loopVars, srvVars, classVars>>

\* the auto-validation goroutine alone on a manager of at most one endpoint
InitAuto ==
  /\ InitState
  /\ Cardinality(validators) <= 1
  /\ honoursCtx = FALSE
  /\ probeErrs = "injected"
  /\ ClassifierIdle
  /\ anyRequest = FALSE
  /\ apc = "start"
  /\ interval \in Intervals
  /\ ticker = "none"
  /\ NoServer
  /\ metricsOn = FALSE

NextAuto ==
  \/ StartAutoValidation
  \/ \E c \in LoopCallers : RunValidationSkip(c)
  \/ \E c \in LoopCallers : RunValidationCheck(c)
  \/ \E c \in LoopCallers : BatchStep(c)
  \/ \E c \in LoopCallers : RunValidationReturn(c)
  \/ TickerFire
  \/ SelectTick
  \/ \E c \in LoopCallers : SelectDone(c)
  \/ \E c \in LoopCallers : CancelBackground(c)
  \/ Tick

SpecAuto == InitAuto /\ [][NextAuto]_vars

\* every enabled step of the goroutine is eventually taken, time passes, and
\* the select, which picks among its ready cases at random, does not pass
\* over a ready ctx.Done() forever
FairAuto ==
  /\ WF_vars(StartAutoValidation)
  /\ \A c \in LoopCallers :
       /\ WF_vars(RunValidationSkip(c))
       /\ WF_vars(RunValidationCheck(c))
       /\ WF_vars(BatchStep(c))
       /\ WF_vars(RunValidationReturn(c))
       /\ SF_vars(SelectDone(c))
  /\ WF_vars(TickerFire)
  /\ WF_vars(SelectTick)

SpecAutoLive == SpecAuto /\ FairAuto

\* ------------------------------------------------------------------ runServer
\* error values of the server: nil, http.ErrServerClosed, an error wrapping
\* it, a listen failure, and the expired context of Shutdown
ErrNil == "nil"
ErrServerClosed == "http: Server closed"
ErrWrappedClosed == "serve: http: Server closed"
ErrListen == "listen failed"
ErrShutdownDeadline == "context deadline exceeded"

\* what ListenAndServe returns on its own, what it returns once Shutdown has
\* been called, and what Shutdown returns
ListenErrors == {ErrNil, ErrListen, ErrServerClosed, ErrWrappedClosed}
ClosedErrors == {ErrServerClosed, ErrListen}
ShutdownErrors == {ErrNil, ErrShutdownDeadline}

\* errors.Is(err, http.ErrServerClosed)
IsServerClosed(e) == e \in {ErrServerClosed, ErrWrappedClosed}

\* the value of errCh handed back as it is
AfterShutdown_Raw(e) == e

\* the ctx.Done() branch after err := <-errCh
AfterShutdown(e) == IF e # ErrNil /\ ~IsServerClosed(e) THEN e ELSE ErrNil

\* the errCh branch: both arms return err
AfterListen(e) == IF e # ErrNil /\ ~IsServerClosed(e) THEN e ELSE e

\* runServer starts the goroutine that calls server.ListenAndServe and
\* blocks in its select
RunServerStart ==
  /\ rpc = "init"
  /\ rpc' = "select"
  /\ las' = "serving"
  /\ UNCHANGED <<mgrVars, valVars, callerVars, ctxCanceled, callVars, opsStarted,
                 envVars, respVars, req, loopVars, srvCtx, errCh, shutdowns,
                 lasErr, shutErr, rret, classVars>>

\* ListenAndServe returns e and the goroutine sends it on errCh, which has
\* room for it: on its own, or because Shutdown has closed the server
ListenReturn(e) ==
  /\ las = "serving"
  /\ e \in (IF shutdowns > 0 THEN ClosedErrors ELSE ListenErrors)
  /\ las' = "returned"
  /\ lasErr' = e
  /\ errCh' = Append(errCh, e)
  /\ UNCHANGED <<mgrVars, valVars, callerVars, ctxCanceled, callVars, opsStarted,
                 envVars, respVars, req, loopVars, rpc, srvCtx, shutdowns,
                 shutErr, rret, classVars>>

\* the context of runServer is canceled (a signal arrives)
CancelServer ==
  /\ rpc # "init"
  /\ ~srvCtx
  /\ srvCtx' = TRUE
  /\ UNCHANGED <<mgrVars, valVars, callerVars, ctxCanceled, callVars, opsStarted,
                 envVars, respVars, req, loopVars, rpc, las, errCh, shutdowns,
                 lasErr, shutErr, rret, classVars>>

\* case <-ctx.Done(): server.Shutdown(shutdownCtx) is called
SelectShutdown ==
  /\ rpc = "select"
  /\ srvCtx
  /\ rpc' = "shutdown"
  /\ shutdowns' = shutdowns + 1
  /\ UNCHANGED <<mgrVars, valVars, callerVars, ctxCanceled, callVars, opsStarted,
                 envVars, respVars, req, loopVars, srvCtx, las, errCh, lasErr,
                 shutErr, rret, classVars>>

\* case err := <-errCh: return err
SelectListenErr ==
  /\ rpc = "select"
  /\ errCh # <<>>
  /\ rret' = AfterListen(Head(errCh))
  /\ errCh' = Tail(errCh)
  /\ rpc' = "returned"
  /\ UNCHANGED <<mgrVars, valVars, callerVars, ctxCanceled, callVars, opsStarted,
                 envVars, respVars, req, loopVars, srvCtx, las, shutdowns,
                 lasErr, shutErr, classVars>>

\* server.Shutdown returns e: an error is returned at once, otherwise
\* runServer goes on to receive from errCh
ShutdownReturn(e) ==
  /\ rpc = "shutdown"
  /\ e \in ShutdownErrors
  /\ shutErr' = e
  /\ IF e # ErrNil
       THEN rpc' = "returned" /\ rret' = e
       ELSE rpc' = "drain" /\ UNCHANGED rret
  /\ UNCHANGED <<mgrVars, valVars, callerVars, ctxCanceled, callVars, opsStarted,
                 envVars, respVars, req, loopVars, srvCtx, las, errCh, shutdowns,
                 lasErr, classVars>>

\* err := <-errCh after Shutdown
DrainListenErr ==
  /\ rpc = "drain"
  /\ errCh # <<>>
  /\ rret' = AfterShutdown(Head(errCh))
  /\ errCh' = Tail(errCh)
  /\ rpc' = "returned"
  /\ UNCHANGED <<mgrVars, valVars, callerVars, ctxCanceled, callVars, opsStarted,
                 envVars, respVars, req, loopVars, srvCtx, las, shutdowns,
                 lasErr, shutErr, classVars>>

\* runServer alone, its server answering no request
InitServer ==
  /\ InitState
  /\ honoursCtx = FALSE
  /\ probeErrs = "injected"
  /\ ClassifierIdle
  /\ anyRequest = FALSE
  /\ NoLoop
  /\ NoServer
  /\ metricsOn = FALSE

NextServer ==
  \/ RunServerStart
  \/ \E e \in ListenErrors : ListenReturn(e)
  \/ CancelServer
  \/ SelectShutdown
  \/ SelectListenErr
  \/ \E e \in ShutdownErrors : ShutdownReturn(e)
  \/ DrainListenErr

SpecServer == InitServer /\ [][NextServer]_vars

\* every step of runServer is taken once it can be; Shutdown returns within
\* its timeout, and a server that Shutdown has closed stops serving
FairServer ==
  /\ WF_vars(RunServerStart)
  /\ WF_vars(SelectShutdown)
  /\ WF_vars(SelectListenErr)
  /\ WF_vars(\E e \in ShutdownErrors : ShutdownReturn(e))
  /\ WF_vars(shutdowns > 0 /\ \E e \in ClosedErrors : ListenReturn(e))
  /\ WF_vars(DrainListenErr)

SpecServerLive == SpecServer /\ FairServer

\* --------------------------------------------------------- the classifier
\* one call classifyValidationError(cerr)
Classify ==
  /\ ~cdone
  /\ ctag' = classifyValidationError(cerr)
  /\ cdone' = TRUE
  /\ UNCHANGED <<mgrVars, valVars, callerVars, ctxCanceled, callVars, opsStarted,
                 envVars, req, loopVars, srvVars, respVars, cerr>>

InitClassify ==
  /\ InitState
  /\ validators = {}
  /\ honoursCtx = FALSE
  /\ probeErrs = "injected"
  /\ Unwired
  /\ cerr \in ClassifierInputs
  /\ ctag = ""
  /\ cdone = FALSE

NextClassify == Classify

SpecClassify == InitClassify /\ [][NextClassify]_vars

\* one request at a time on a manager of at most one endpoint whose
\* client can fail a probe with any error the classifier distinguishes
InitKinds ==
  /\ InitState
  /\ Cardinality(validators) <= 1
  /\ honoursCtx = FALSE
  /\ probeErrs = "any"
  /\ ClassifierIdle
  /\ Unwired

SpecKinds == InitKinds /\ [][NextBatch]_vars

\* ------------------------------------------------------------------ metrics
\* the error_type label RegisterEndpoint seeds the failure counter with
SeededFailureLabel == "validation_failed"

\* metrics.RegisterEndpoint(bucket): the series of the bucket are created
\* with the value 0, among them one series of the failure counter
RegisterEndpoint(bucket) ==
  /\ metricsOn
  /\ bucket \in validators
  /\ <<bucket, SeededFailureLabel>> \notin failureSeries
  /\ failureSeries' = failureSeries \cup {<<bucket, SeededFailureLabel>>}
  /\ UNCHANGED <<mgrVars, valVars, callerVars, ctxCanceled, callVars, opsStarted,
                 envVars, httpStatus, summary, recorded, got, failedResults, req,
                 loopVars, srvVars, classVars>>

\* one request at a time on a manager of at most one endpoint, probes failing
\* with any kind of error, the failure counter followed
InitMetrics ==
  /\ InitState
  /\ Cardinality(validators) <= 1
  /\ honoursCtx = FALSE
  /\ probeErrs = "any"
  /\ ClassifierIdle
  /\ anyRequest = FALSE
  /\ NoLoop
  /\ rpc = "init" /\ srvCtx = FALSE /\ las = "idle" /\ errCh = <<>>
  /\ shutdowns = 0 /\ lasErr = NotReturned /\ shutErr = NotReturned
  /\ rret = NotReturned
  /\ metricsOn = TRUE

NextMetrics ==
  \/ \E b \in EndpointNames : RegisterEndpoint(b)
  \/ NextBatch

SpecMetrics == InitMetrics /\ [][NextMetrics]_vars

\* ------------------------------------------------------------------ claims
Finished(c, n) == kpc[c][n] \in {"send", "done"}
BuildFailed(c, n) == Finished(c, n) /\ kclient[c][n] = NoClient
ProbeReturned(c, n) == Finished(c, n) /\ kclient[c][n] # NoClient
Returned(c) == op[c] = "all" /\ mpc[c] = "returned"

\* C1: when ValidateAll has returned, every worker it spawned (one per
\* registered validator) has finished ValidateKeys and delivered its result.
C1_ReturnAfterAllWorkers ==
  \A c \in Callers :
    Returned(c) =>
      \A n \in validators : kpc[c][n] = "done" /\ kres[c][n] # NoResult

C1_Witness ==
  \E c \in Callers :
    /\ Returned(c)
    /\ validators = EndpointNames
    /\ \A n \in validators : kpc[c][n] = "done"

\* C2: the Results map ValidateAll returns has exactly the registered names
\* as keys and maps each name to the result its own validator returned.
C2_ResultsByName ==
  \A c \in Callers :
    Returned(c) =>
      /\ DOMAIN results[c] = validators
      /\ \A n \in validators : results[c][n] = kres[c][n]

C2_Witness ==
  \E c \in Callers :
    /\ Returned(c)
    /\ validators = EndpointNames
    /\ results[c]["one"].IsValid
    /\ ~results[c]["two"].IsValid

\* C3: inside one ValidateAll no worker waits for another endpoint's worker:
\* whatever the other workers are doing, a worker that is spawned, at the
\* client lock, building, probing or sending can take its next step, and the
\* result it returns is fixed by the outcome of its own build and probe.
C3_EndpointsIndependent ==
  \A c \in RequestCallers : \A n \in validators :
    /\ kpc[c][n] = "spawned" => ENABLED ValidateKeysBegin(c, n)
    /\ kpc[c][n] = "lock" =>
         ENABLED (GetClientCached(c, n) \/ GetClientBuild(c, n))
    /\ kpc[c][n] = "build" => ENABLED BuildSucceed(c, n)
    /\ kpc[c][n] = "probe" => ENABLED ProbeSucceed(c, n)
    /\ kpc[c][n] = "send" => ENABLED WorkerSend(c, n)
    /\ Finished(c, n) =>
         /\ kres[c][n].IsValid = (kerr[c][n] = NoErr)
         /\ kres[c][n].ErrorType =
              IF kclient[c][n] = NoClient THEN errorTypeConfig
              ELSE classifyValidationError(kerr[c][n])

C3_Witness ==
  \E c \in RequestCallers : \E a \in validators, b \in validators :
    /\ a # b
    /\ op[c] = "all"
    /\ kpc[c][a] = "done"
    /\ kres[c][a].IsValid
    /\ kpc[c][b] \in {"build", "probe"}
    /\ DeadlinePassed(c, b)

\* C4: under any interleaving of concurrent ValidateKeys calls on one
\* validator at most one client is built successfully, every call that
\* obtained a client holds the cached one, and once the slot is populated the
\* build hook is not invoked again.
C4_SingleClient ==
  /\ [](\A n \in EndpointNames :
          /\ Cardinality(builtClients[n]) <= 1
          /\ \A c \in Callers :
               kclient[c][n] # NoClient => kclient[c][n] = client[n])
  /\ [][\A n \in EndpointNames :
          client[n] # NoClient => buildCalls'[n] = buildCalls[n]]_vars

C4_Witness ==
  \E n \in EndpointNames :
    /\ \A c \in Callers : kpc[c][n] = "probe" /\ kclient[c][n] = client[n]
    /\ \E c \in Callers : kbuilds[c][n] = 1
    /\ \E c \in Callers : kbuilds[c][n] = 0

\* C5 as stated: the build hook is invoked at most once per validator,
\* however many ValidateKeys calls are made.
C5_Original ==
  \A n \in EndpointNames : buildCalls[n] <= 1

\* C5 amended: as long as no build of the validator has failed, any number
\* of ValidateKeys calls invokes the build hook at most once.
C5_BuildOnceUnlessFailed ==
  \A n \in EndpointNames : buildFails[n] = 0 => buildCalls[n] <= 1

C5_Witness ==
  \E n \in EndpointNames :
    /\ \A c \in Callers : kpc[c][n] = "done" /\ kres[c][n].IsValid
    /\ buildCalls[n] = 1

\* C6: a failed build leaves the slot empty and the lock free, the next call
\* that reaches getClient with the slot empty invokes the hook again, and a
\* build that then succeeds is cached.
C6_BuildFailureNotCached ==
  /\ [](\A n \in EndpointNames :
          lastBuild[n] = "fail" => client[n] = NoClient)
  /\ [][\A c \in Callers : \A n \in EndpointNames :
          /\ (kpc[c][n] = "build" /\ BuildFailed(c, n)') =>
               (client'[n] = NoClient /\ clientMu'[n] = NoHolder)
          /\ (lastBuild[n] = "fail" /\ kpc[c][n] = "lock"
                /\ kpc'[c][n] # "lock") =>
               (kpc'[c][n] = "build" /\ buildCalls'[n] = buildCalls[n] + 1)
          /\ (kpc[c][n] = "build" /\ kpc'[c][n] = "probe") =>
               (client'[n] # NoClient /\ client'[n] = kclient'[c][n])]_vars

C6_Witness ==
  \E n \in EndpointNames : \E c1 \in Callers, c2 \in Callers :
    /\ BuildFailed(c1, n)
    /\ kres[c1][n].ErrorType = errorTypeConfig
    /\ kbuilds[c2][n] = 1
    /\ kclient[c2][n] # NoClient
    /\ client[n] = kclient[c2][n]
    /\ buildCalls[n] = 2

\* C7: the cached client is write-once: once the slot holds a client no step
\* changes or empties it, whatever later probes return.
C7_ClientWriteOnce ==
  [][\A n \in EndpointNames :
       client[n] # NoClient => client'[n] = client[n]]_vars

C7_Witness ==
  \E n \in EndpointNames : \E c1 \in Callers, c2 \in Callers :
    /\ client[n] # NoClient
    /\ ProbeReturned(c1, n) /\ kerr[c1][n] = ErrDeadlineExceeded
    /\ ProbeReturned(c2, n) /\ kerr[c2][n] = ErrCanceled

\* C8: a ValidateKeys call whose client build failed returns an invalid
\* result tagged config_error, a tag the classifier never produces, and makes
\* no probe call.
C8_BuildFailureIsConfigError ==
  /\ \A c \in Callers : \A n \in EndpointNames :
       BuildFailed(c, n) =>
         /\ kres[c][n].IsValid = FALSE
         /\ kres[c][n].ErrorType = errorTypeConfig
         /\ kprobes[c][n] = 0
  /\ \A e \in BuildErrors \cup {NoErr, ErrBoom, ErrAccessDenied,
                                ErrDeadlineExceeded, ErrCanceled} :
       classifyValidationError(e) # errorTypeConfig

C8_Witness ==
  \E c \in Callers : \E n \in EndpointNames :
    /\ BuildFailed(c, n)
    /\ kbuilds[c][n] = 1
    /\ kerr[c][n] = ErrConfigFailed

\* C9: a ValidateKeys call whose probe succeeded returns a valid result with
\* an empty error kind and a non-negative response time.
C9_ProbeSuccessResult ==
  \A c \in Callers : \A n \in EndpointNames :
    (ProbeReturned(c, n) /\ kerr[c][n] = NoErr) =>
      /\ kres[c][n].IsValid = TRUE
      /\ kres[c][n].ErrorType = ""
      /\ kres[c][n].ResponseTimeMs >= 0

C9_Witness ==
  \E c \in Callers : \E n \in EndpointNames :
    /\ ProbeReturned(c, n)
    /\ kerr[c][n] = NoErr
    /\ kres[c][n].IsValid
    /\ kres[c][n].ResponseTimeMs > 0

\* C10: a ValidateKeys call whose probe failed with error e returns (it is
\* not aborted) an invalid result whose error kind is classify(e).
C10_ProbeFailureClassified ==
  \A c \in Callers : \A n \in EndpointNames :
    (ProbeReturned(c, n) /\ kerr[c][n] # NoErr) =>
      /\ kres[c][n] # NoResult
      /\ kres[c][n].IsValid = FALSE
      /\ kres[c][n].ErrorType = classifyValidationError(kerr[c][n])
      /\ kprobes[c][n] = 1

C10_Witness ==
  \E c \in Callers : \E n \in EndpointNames :
    /\ ProbeReturned(c, n)
    /\ kerr[c][n] = ErrAccessDenied
    /\ kres[c][n].ErrorType = errorTypeForbidden

\* C11: a cancellation of the parent context reaches every probe in flight on
\* a client that honours its context: the probe can return the
\* cancellation at once, no time passes while it still holds the canceled
\* context, and when it returns the result is invalid with error kind
\* canceled or timeout.
C11_CancellationReachesProbes ==
  [][\A c \in Callers : \A n \in EndpointNames :
       (kpc[c][n] = "probe" /\ ctxCanceled[c]) =>
         /\ ENABLED ProbeFail(c, n, ErrCanceled)
         /\ IF kpc'[c][n] = "probe"
              THEN kelapsed'[c][n] = kelapsed[c][n]
              ELSE /\ Finished(c, n)'
                   /\ kres'[c][n].IsValid = FALSE
                   /\ kres'[c][n].ErrorType \in
                        {errorTypeCanceled, errorTypeTimeout}]_vars

C11_Witness ==
  \E c \in Callers : \E n \in EndpointNames :
    /\ ProbeReturned(c, n)
    /\ ~kctxAtCall[c][n]
    /\ ctxCanceled[c]
    /\ kerr[c][n] = ErrCanceled
    /\ kres[c][n].ErrorType = errorTypeCanceled

\* C12 as stated: a ValidateKeys call made with a context that is already
\* done returns an invalid result of kind canceled or timeout, with or
\* without a cached client.
C12_Original ==
  \A c \in Callers : \A n \in EndpointNames :
    (Finished(c, n) /\ kctxAtCall[c][n]) =>
      /\ kres[c][n].IsValid = FALSE
      /\ kres[c][n].ErrorType \in {errorTypeCanceled, errorTypeTimeout}

\* C12 amended: such a call returns an invalid result; its kind is canceled
\* or timeout when the probe was attempted (cached client, or a build that
\* succeeded) and config_error, with no probe, when the build failed.
C12_DoneContextAtCall ==
  \A c \in Callers : \A n \in EndpointNames :
    (Finished(c, n) /\ kctxAtCall[c][n]) =>
      /\ kres[c][n].IsValid = FALSE
      /\ IF BuildFailed(c, n)
           THEN kres[c][n].ErrorType = errorTypeConfig /\ kprobes[c][n] = 0
           ELSE /\ kres[c][n].ErrorType \in {errorTypeCanceled, errorTypeTimeout}
                /\ kprobes[c][n] = 1

C12_Witness ==
  \E c \in Callers : \E n \in EndpointNames :
    /\ ProbeReturned(c, n)
    /\ kctxAtCall[c][n]
    /\ kbuilds[c][n] = 0
    /\ kclient[c][n] = client[n]
    /\ kres[c][n].ErrorType = errorTypeCanceled

\* C13 as stated: a ValidateKeys call run by ValidateAll never stays in
\* flight (at the client lock, in the client build or in the probe) beyond
\* the manager's timeout.
C13_Original ==
  \A c \in Callers : \A n \in EndpointNames :
    (op[c] = "all" /\ InFlight(c, n)) => kelapsed[c][n] <= ValidationTimeout

\* C13 amended: the manager's timeout bounds the probe of every ValidateKeys
\* call run by ValidateAll: once the timeout has expired a probe in flight
\* can return the deadline error at once, no time passes while it is still
\* in flight, and when it returns the call has a result.
C13_TimeoutBoundsProbe ==
  [][\A c \in Callers : \A n \in EndpointNames :
       (op[c] = "all" /\ kpc[c][n] = "probe"
          /\ kelapsed[c][n] >= ValidationTimeout) =>
         /\ ENABLED ProbeFail(c, n, ErrDeadlineExceeded)
         /\ IF kpc'[c][n] = "probe"
              THEN kelapsed'[c][n] = kelapsed[c][n]
              ELSE Finished(c, n)' /\ kres'[c][n] # NoResult]_vars

C13_Witness ==
  \E c \in Callers : \E n \in EndpointNames :
    /\ op[c] = "all"
    /\ ProbeReturned(c, n)
    /\ ~ctxCanceled[c]
    /\ kerr[c][n] = ErrDeadlineExceeded
    /\ kres[c][n].ErrorType = errorTypeTimeout
    /\ kres[c][n].Duration = ValidationTimeout

\* C14: ValidateEndpoint with an unregistered name returns at once a
\* synthesized invalid result with the message "endpoint '<name>' not found"
\* and no error kind, and the call builds no client and makes no probe.
C14_UnregisteredEndpoint ==
  \A c \in RequestCallers :
    (op[c] = "one" /\ target[c] \notin validators) =>
      /\ mpc[c] = "returned"
      /\ single[c].IsValid = FALSE
      /\ single[c].Message = <<"endpoint '", target[c], "' not found">>
      /\ single[c].ErrorType = ""
      /\ \A n \in EndpointNames :
           /\ kpc[c][n] = "none"
           /\ kbuilds[c][n] = 0
           /\ kprobes[c][n] = 0
           /\ kres[c][n] = NoResult

C14_Witness ==
  \E c \in RequestCallers :
    /\ validators = {"one"}
    /\ op[c] = "one"
    /\ target[c] = "two"
    /\ mpc[c] = "returned"
    /\ single[c].Message = <<"endpoint '", "two", "' not found">>
    /\ buildCalls["two"] = 0

\* two codes that differ at most in the case of their letters
EqualFold(a, b) ==
  /\ Len(a) = Len(b)
  /\ \A i \in 1..Len(a) : a[i] = b[i] \/ SwapCaseChar(a[i]) = b[i]

\* C15: the classifier returns the empty tag for the nil error and for no
\* other error.
C15_EmptyTagIffNil ==
  cdone => ((ctag = "") <=> cerr.nil)

C15_Witness ==
  /\ cdone
  /\ cerr = NoErr
  /\ ctag = ""
  /\ opsStarted = 0

\* the error matches no structural check of the classifier: neither context
\* sentinel is in its chain and it is no network-level error
NoStructure(err) == ~err.deadline /\ ~err.canceled /\ err.net = "none"

\* C16 as stated: the deadline sentinel gives timeout, the cancellation
\* sentinel gives canceled, a network-level error gives timeout when its
\* timeout flag is set and network when it is not.
C16_Original ==
  cdone =>
    /\ cerr.deadline => ctag = errorTypeTimeout
    /\ cerr.canceled => ctag = errorTypeCanceled
    /\ cerr.net = "timeout" => ctag = errorTypeTimeout
    /\ cerr.net = "other" => ctag = errorTypeNetwork

\* C16 amended: the structural checks apply in order, first match wins:
\* the deadline sentinel gives timeout; the cancellation sentinel gives
\* canceled unless the deadline sentinel matches too; a network-level error
\* that matches neither sentinel gives timeout when its timeout flag is set
\* and network when it is not.
C16_ShapesInOrder ==
  cdone =>
    /\ cerr.deadline => ctag = errorTypeTimeout
    /\ (cerr.canceled /\ ~cerr.deadline) => ctag = errorTypeCanceled
    /\ (cerr.net = "timeout" /\ ~cerr.deadline /\ ~cerr.canceled) =>
         ctag = errorTypeTimeout
    /\ (cerr.net = "other" /\ ~cerr.deadline /\ ~cerr.canceled) =>
         ctag = errorTypeNetwork

C16_Witness ==
  /\ cdone
  /\ cerr.net = "other"
  /\ ~cerr.deadline /\ ~cerr.canceled
  /\ cerr.api /\ cerr.code = CodeAccessDenied
  /\ cerr.status = StatusForbidden
  /\ ctag = errorTypeNetwork

\* the listed codes with the tag the claim gives each
ListedTags ==
  {<<CodeAccessDenied, "access_denied">>,
   <<CodeInvalidAccessKeyId, "access_denied">>,
   <<CodeSignatureDoesNotMatch, "access_denied">>,
   <<CodeNoSuchBucket, "bucket_not_found">>,
   <<CodeNoSuchBucketPolicy, "bucket_not_found">>,
   <<CodeExpiredToken, "token_expired">>,
   <<CodeSlowDown, "throttled">>,
   <<CodeThrottling, "throttled">>,
   <<CodeThrottlingException, "throttled">>,
   <<CodeRequestTimeout, "timeout">>}

\* C17 as stated: whatever else the error is, a remote API error whose code
\* is, up to letter case, a listed code gets the tag of that code, the same
\* tag as the documented spelling.
C17_Original ==
  (cdone /\ cerr.api) =>
    \A p \in ListedTags :
      EqualFold(cerr.code, p[1]) =>
        /\ ctag = p[2]
        /\ classifyValidationError([cerr EXCEPT !.code = p[1]]) = ctag

\* C17 amended: the same for a remote API error that matches none of the
\* structural checks, which come first.
C17_ListedCodeTags ==
  (cdone /\ cerr.api /\ NoStructure(cerr)) =>
    \A p \in ListedTags :
      EqualFold(cerr.code, p[1]) =>
        /\ ctag = p[2]
        /\ classifyValidationError([cerr EXCEPT !.code = p[1]]) = ctag

C17_Witness ==
  /\ cdone
  /\ cerr.api /\ NoStructure(cerr)
  /\ cerr.code = SwapCase(CodeThrottlingException)
  /\ cerr.status = StatusNotFound
  /\ ctag = "throttled"

\* the code is, even up to letter case, none of the listed codes
Unlisted(code) == \A p \in ListedTags : ~EqualFold(code, p[1])

\* C18 as stated: a remote API error whose code is none of the listed codes
\* is classified as unknown.
C18_Original ==
  (cdone /\ cerr.api /\ Unlisted(cerr.code)) => ctag = errorTypeUnknown

\* C18 amended: a remote API error whose code is none of the listed codes
\* and which matches none of the structural checks is classified by the HTTP
\* status of its response when that is 403, 404 or 504, and as unknown
\* otherwise.
C18_UnlistedCode ==
  (cdone /\ cerr.api /\ Unlisted(cerr.code) /\ NoStructure(cerr)) =>
    ctag = CASE cerr.status = 403 -> "access_denied"
             [] cerr.status = 404 -> "bucket_not_found"
             [] cerr.status = 504 -> "timeout"
             [] OTHER -> "unknown"

C18_Witness ==
  /\ cdone
  /\ cerr.api /\ NoStructure(cerr)
  /\ cerr.code = CodeNoSuchKey
  /\ cerr.status = 500
  /\ ctag = errorTypeUnknown

\* the tags of the taxonomy
ErrorKinds ==
  {"config_error", "timeout", "canceled", "network", "access_denied",
   "bucket_not_found", "token_expired", "throttled", "unknown", ""}

\* C19: the error kind of every ValidationResult that ValidateKeys,
\* ValidateEndpoint or ValidateAll produces (returned, in the channel or in
\* the Results map) is one of the tags of the taxonomy.
C19_TaxonomyClosed ==
  \A c \in Callers :
    /\ \A n \in EndpointNames :
         kres[c][n] # NoResult => kres[c][n].ErrorType \in ErrorKinds
    /\ single[c] # NoResult => single[c].ErrorType \in ErrorKinds
    /\ \A i \in 1..Len(resultsChan[c]) :
         resultsChan[c][i].result.ErrorType \in ErrorKinds
    /\ \A n \in DOMAIN results[c] : results[c][n].ErrorType \in ErrorKinds

C19_Witness ==
  \E c \in Callers :
    /\ Returned(c)
    /\ validators = {"one"}
    /\ kerr[c]["one"].api /\ kerr[c]["one"].code = CodeSlowDown
    /\ results[c]["one"].ErrorType = "throttled"

\* the endpoints of the Results map ValidateAll returned to c, by outcome
ValidIn(c) == {n \in DOMAIN results[c] : results[c][n].IsValid}
InvalidIn(c) == {n \in DOMAIN results[c] : ~results[c][n].IsValid}

\* C20: when POST /validate has answered, its status is 200 if no result is
\* invalid (also when there are no endpoints), 207 if some result is valid
\* and some is invalid, and 401 if some result is invalid and none is valid;
\* the summary carries exactly those counts.
C20_StatusByCounts ==
  \A c \in RequestCallers :
    Returned(c) =>
      LET ok == Cardinality(ValidIn(c))
          bad == Cardinality(InvalidIn(c))
      IN /\ summary[c] = [TotalEndpoints |-> Cardinality(DOMAIN results[c]),
                          Successful |-> ok, Failed |-> bad]
         /\ bad = 0 => httpStatus[c] = StatusOK
         /\ (ok > 0 /\ bad > 0) => httpStatus[c] = StatusMultiStatus
         /\ (bad > 0 /\ ok = 0) => httpStatus[c] = StatusUnauthorized

C20_Witness ==
  \E c \in RequestCallers :
    /\ Returned(c)
    /\ validators = EndpointNames
    /\ ValidIn(c) # {}
    /\ InvalidIn(c) # {}
    /\ httpStatus[c] = StatusMultiStatus

\* the request caller c is serving has been answered
Answered(c) == req[c] # NoRequest /\ httpStatus[c] # NoStatus

\* r is a GET or POST request for /validate/{name}
EndpointRequest(r) ==
  /\ r # NoRequest
  /\ Route(r.path) = "one"
  /\ r.method \in {"GET", "POST"}

\* C21: an answered GET or POST /validate/{name} with a non-empty name
\* carries the result of ValidateEndpoint(name), with status 200 when that
\* result is valid and 401 when it is not; for an unregistered name the
\* result is the synthesized not-found result and the status is 401.
C21_EndpointStatus ==
  \A c \in RequestCallers :
    (Answered(c) /\ EndpointRequest(req[c]) /\ EndpointName(req[c].path) # "") =>
      /\ op[c] = "one"
      /\ target[c] = EndpointName(req[c].path)
      /\ single[c] # NoResult
      /\ httpStatus[c] =
           (IF single[c].IsValid THEN StatusOK ELSE StatusUnauthorized)
      /\ target[c] \notin validators =>
           /\ single[c] = NotFoundResult(target[c])
           /\ httpStatus[c] = StatusUnauthorized

C21_Witness ==
  \E c \in RequestCallers :
    /\ Answered(c)
    /\ req[c] = [method |-> "GET", path |-> <<"", "validate", "two">>]
    /\ validators = {"one"}
    /\ httpStatus[c] = StatusUnauthorized

\* C22: while the request of a handler is a GET or POST for /validate/ with
\* an empty name, its status is 400, nothing is recorded for it, and no
\* step starts or advances a manager operation; a request with a non-empty
\* unregistered name is answered 401, not 400.
C22_EmptyNameIsBadRequest ==
  [][\A c \in RequestCallers :
       /\ (EndpointRequest(req'[c]) /\ EndpointName(req'[c].path) = "") =>
            /\ httpStatus'[c] = StatusBadRequest
            /\ recorded'[c] = NoRecords
            /\ UNCHANGED <<opsStarted, op, target, mpc, single, kpc>>
       /\ (EndpointRequest(req'[c]) /\ EndpointName(req'[c].path) # ""
             /\ EndpointName(req'[c].path) \notin validators
             /\ httpStatus'[c] # NoStatus) =>
            httpStatus'[c] = StatusUnauthorized]_vars

C22_Witness ==
  \E c \in RequestCallers :
    /\ req[c] = [method |-> "POST", path |-> <<"", "validate", "">>]
    /\ httpStatus[c] = StatusBadRequest
    /\ opsStarted > 0

\* the method of r is not one its handler serves
Disallowed(r) ==
  /\ r # NoRequest
  /\ \/ r.path = PathHealth /\ r.method # "GET"
     \/ r.path = PathValidate /\ r.method # "POST"
     \/ r.path \notin {PathHealth, PathValidate} /\ r.method \notin {"GET", "POST"}

\* C23: while the request of a handler has a method its route does not
\* serve, its status is 405 (also on /validate/ with an empty name), nothing
\* is recorded for it, and no step starts or advances a manager operation.
C23_MethodNotAllowed ==
  [][\A c \in RequestCallers :
       Disallowed(req'[c]) =>
         /\ httpStatus'[c] = StatusMethodNotAllowed
         /\ recorded'[c] = NoRecords
         /\ UNCHANGED <<opsStarted, op, target, mpc, single, results, kpc>>]_vars

C23_Witness ==
  \E c \in RequestCallers :
    /\ req[c] = [method |-> "DELETE", path |-> <<"", "validate", "">>]
    /\ httpStatus[c] = StatusMethodNotAllowed
    /\ opsStarted > 0

\* C24: when an operation has returned to the /validate handler, the
\* /validate/{name} handler or the background task, the recorder has been
\* invoked once for every result the operation produced (one per endpoint
\* whose ValidateKeys returned; the one result of ValidateEndpoint, the
\* not-found result included) and for nothing else.
C24_RecordedOnce ==
  \A c \in Callers :
    mpc[c] = "returned" =>
      \A n \in EndpointNames :
        recorded[c][n] =
          (IF op[c] = "all"
             THEN (IF kres[c][n] # NoResult THEN 1 ELSE 0)
             ELSE (IF n = target[c] /\ single[c] # NoResult THEN 1 ELSE 0))

C24_Witness ==
  /\ mpc["tick"] = "returned"
  /\ recorded["tick"]["one"] = 1
  /\ mpc["request"] = "returned"
  /\ op["request"] = "one"
  /\ single["request"] = NotFoundResult("two")
  /\ recorded["request"]["two"] = 1

\* the background task starts a ValidateAll in this step
BackgroundBegins(c) == mpc[c] # "spawning" /\ mpc'[c] = "spawning"

\* C25: with an interval that is zero or negative the background task never
\* starts: no ValidateAll is invoked and no result is recorded, ever.
C25_DisabledNeverRuns ==
  interval <= 0 =>
    /\ apc \in {"start", "off"}
    /\ opsStarted = 0
    /\ \A c \in LoopCallers :
         /\ mpc[c] = "idle"
         /\ recorded[c] = NoRecords
         /\ \A n \in EndpointNames : kpc[c][n] = "none"

C25_Witness ==
  /\ interval = 0
  /\ apc = "off"
  /\ \E c \in LoopCallers : ctxCanceled[c]

\* C26: with a positive interval, the first ValidateAll is invoked before
\* the ticker exists unless the context was already canceled, and while the
\* context is never canceled ValidateAll is eventually invoked a second time.
C26_RunsAtStartAndOnTicks ==
  /\ [](\A c \in LoopCallers :
          (interval > 0 /\ ticker # "none" /\ ~ctxCanceled[c]) => opsStarted >= 1)
  /\ (interval > 0) =>
       <>(\E c \in LoopCallers : ctxCanceled[c] \/ opsStarted >= 2)

C26_Witness ==
  /\ interval > 0
  /\ opsStarted >= 2
  /\ apc = "validating"
  /\ ticker = "armed"
  /\ \A c \in LoopCallers : ~ctxCanceled[c]

\* C27 as stated: no ValidateAll of the background task starts once its
\* context is canceled.
C27_Original ==
  [][\A c \in LoopCallers : BackgroundBegins(c) => ~ctxCanceled[c]]_vars

\* C27: every ValidateAll of the background task follows a context test of
\* runValidation that found the context live, and a runValidation that finds
\* the context canceled returns without starting one, also when the select
\* picked the tick while the cancellation was ready; once the context is
\* canceled the background task exits (or was never started).
C27_NoRunAfterCanceledCheck ==
  /\ [][\A c \in LoopCallers :
          /\ BackgroundBegins(c) => apc = "call"
          /\ (apc # "call" /\ apc' = "call") => (apc = "check" /\ ~ctxCanceled[c])
          /\ (apc = "check" /\ ctxCanceled[c]) => apc' \in {"check", "select"}]_vars
  /\ \A c \in LoopCallers : ctxCanceled[c] ~> (apc \in {"exit", "off"})

C27_Witness ==
  /\ apc = "exit"
  /\ opsStarted = 1
  /\ ticker = "stopped"
  /\ \E c \in LoopCallers : ctxCanceled[c] /\ mpc[c] = "returned"

\* C28: the goroutine enters runValidation only when no ValidateAll of its
\* own is in flight: at the start, or from the select of its loop after the
\* previous ValidateAll has returned and its results are recorded; so a
\* ValidateAll of the background task is in flight only inside that one
\* runValidation.
C28_NoOverlap ==
  [][\A c \in LoopCallers :
       /\ (apc # "check" /\ apc' = "check") =>
            /\ mpc[c] \in {"idle", "returned"}
            /\ \A n \in EndpointNames : kpc[c][n] \in {"none", "done"}
            /\ mpc[c] = "returned" =>
                 \A n \in validators : recorded[c][n] = 1
       /\ mpc'[c] \in {"spawning", "waiting"} => apc' = "validating"]_vars

C28_Witness ==
  /\ apc = "check"
  /\ ticker = "armed"
  /\ opsStarted = 1
  /\ \E c \in LoopCallers : mpc[c] = "returned" /\ ~ctxCanceled[c]

\* C29 as stated: a getter call returns the number N of configured
\* endpoints, respectively N names that are the configured ones, and leaves
\* the manager and every validator unchanged.
C29_Original ==
  [][\A c \in RequestCallers :
       (got'[c] # got[c] /\ got'[c].op \in {"count", "names"}) =>
         /\ got'[c].op = "count" => got'[c].count = Len(cfgNames)
         /\ got'[c].op = "names" =>
              /\ got'[c].names = {cfgNames[i] : i \in 1..Len(cfgNames)}
              /\ got'[c].count = Len(cfgNames)
         /\ UNCHANGED <<mgrVars, valVars>>]_vars

\* C30 as stated: once the context is canceled while the server listens,
\* runServer calls Shutdown, only after the cancellation and once; having
\* called it, it returns only after ListenAndServe has returned, and with
\* nil when ListenAndServe returned http.ErrServerClosed.
C30_Original ==
  /\ [](shutdowns <= 1 /\ (shutdowns > 0 => srvCtx))
  /\ (srvCtx /\ rpc = "select" /\ las = "serving") ~> (shutdowns = 1)
  /\ []((rpc = "returned" /\ shutdowns = 1) =>
          /\ las = "returned"
          /\ errCh = <<>>
          /\ lasErr = ErrServerClosed => rret = ErrNil)

\* C30: Shutdown is called at most once and only after the cancellation.
\* A runServer canceled while the server listens calls Shutdown, unless
\* ListenAndServe returns first and the select takes that value, and in
\* both cases it returns.  When Shutdown returned an error, that error is
\* the result; when it returned nil, runServer has received the value of
\* ListenAndServe, and its result is nil for nil and for a closed server,
\* the value itself otherwise.
C30_ShutdownOnCancel ==
  /\ [](shutdowns <= 1 /\ (shutdowns > 0 => srvCtx))
  /\ (srvCtx /\ rpc = "select" /\ las = "serving") ~>
       (shutdowns = 1 \/ (rpc = "returned" /\ las = "returned"))
  /\ (shutdowns = 1) ~> (rpc = "returned")
  /\ []((rpc = "returned" /\ shutdowns = 1) =>
          IF shutErr = ErrNil
            THEN /\ las = "returned"
                 /\ errCh = <<>>
                 /\ rret = (IF lasErr \in {ErrNil, ErrServerClosed,
                                            ErrWrappedClosed}
                              THEN ErrNil ELSE lasErr)
            ELSE rret = shutErr /\ rret # ErrNil)

C30_Witness ==
  /\ rpc = "returned"
  /\ srvCtx
  /\ shutdowns = 1
  /\ shutErr = ErrNil
  /\ lasErr = ErrServerClosed
  /\ rret = ErrNil

\* C31 as stated: a returned runServer reports an error exactly when
\* ListenAndServe or Shutdown returned an error other than
\* http.ErrServerClosed; a closed server is reported by neither branch.
C31_Original ==
  rpc = "returned" =>
    (rret # ErrNil <=>
       \/ lasErr \notin {NotReturned, ErrNil} /\ ~IsServerClosed(lasErr)
       \/ shutErr \notin {NotReturned, ErrNil} /\ ~IsServerClosed(shutErr))

\* the six rules of the classifier in the order of the specification, each
\* with whether it matches err and the tag it gives
PrecedenceRules(err) ==
  <<[matches |-> err.deadline, tag |-> "timeout"],
    [matches |-> err.canceled, tag |-> "canceled"],
    [matches |-> err.net # "none",
     tag |-> IF err.net = "timeout" THEN "timeout" ELSE "network"],
    [matches |-> err.api /\ ~Unlisted(err.code),
     tag |-> IF Unlisted(err.code) THEN ""
             ELSE (CHOOSE p \in ListedTags : EqualFold(err.code, p[1]))[2]],
    [matches |-> err.status \in {403, 404, 504},
     tag |-> CASE err.status = 403 -> "access_denied"
               [] err.status = 404 -> "bucket_not_found"
               [] OTHER -> "timeout"],
    [matches |-> TRUE, tag |-> "unknown"]>>

\* the tag of the earliest rule that matches err
FirstMatch(err) ==
  LET rules == PrecedenceRules(err)
      first == CHOOSE i \in 1..Len(rules) :
                 rules[i].matches /\ \A j \in 1..(i - 1) : ~rules[j].matches
  IN rules[first].tag

\* the number of rules before the last that match err
MatchCount(err) ==
  Cardinality({i \in 1..5 : PrecedenceRules(err)[i].matches})

\* C32: a non-nil error is classified by the earliest of the rules deadline
\* sentinel, cancellation sentinel, network error, API error code, HTTP
\* status, unknown that matches it, whatever later rules match it too.
C32_FirstMatchWins ==
  (cdone /\ ~cerr.nil) => ctag = FirstMatch(cerr)

C32_Witness ==
  /\ cdone
  /\ cerr.deadline /\ cerr.canceled /\ cerr.net = "other"
  /\ cerr.api /\ cerr.code = CodeAccessDenied
  /\ cerr.status = StatusNotFound
  /\ MatchCount(cerr) = 5
  /\ ctag = errorTypeTimeout

\* C33: a ValidateKeys call invokes the build hook at most once and the
\* probe at most once; once it has returned it has made exactly one probe
\* call when getClient gave it a client, and no probe call after exactly one
\* build attempt when getClient gave it none.
C33_OneBuildOneProbe ==
  \A c \in Callers : \A n \in EndpointNames :
    /\ kbuilds[c][n] <= 1
    /\ kprobes[c][n] <= 1
    /\ Finished(c, n) =>
         IF kclient[c][n] # NoClient
           THEN kprobes[c][n] = 1
           ELSE kprobes[c][n] = 0 /\ kbuilds[c][n] = 1 /\ kerr[c][n] \in BuildErrors

C33_Witness ==
  \E c \in Callers : \E n \in EndpointNames :
    /\ Finished(c, n)
    /\ kbuilds[c][n] = 1
    /\ kclient[c][n] # NoClient
    /\ kprobes[c][n] = 1
    /\ kerr[c][n] = ErrBoom
    /\ ~kres[c][n].IsValid

\* the error kind of r is empty exactly when r is valid, and is a tag of the
\* taxonomy
KindMatchesValidity(r) ==
  /\ (r.ErrorType = "") <=> r.IsValid
  /\ r.ErrorType \in ErrorKinds

\* C34 as stated: every result ValidateKeys, ValidateEndpoint or ValidateAll
\* has returned has an empty error kind exactly when it is valid.
C34_Original ==
  \A c \in Callers :
    /\ \A n \in EndpointNames :
         kres[c][n] # NoResult => KindMatchesValidity(kres[c][n])
    /\ single[c] # NoResult => KindMatchesValidity(single[c])
    /\ \A n \in DOMAIN results[c] : KindMatchesValidity(results[c][n])

\* C34 amended: that holds of every result of ValidateKeys, hence of every
\* entry ValidateAll returns and of what ValidateEndpoint returns for a
\* registered name; the result ValidateEndpoint synthesizes for a name that
\* is not registered is invalid and has the empty kind.
C34_KindEmptyIffValid ==
  \A c \in Callers :
    /\ \A n \in EndpointNames :
         kres[c][n] # NoResult => KindMatchesValidity(kres[c][n])
    /\ \A n \in DOMAIN results[c] : KindMatchesValidity(results[c][n])
    /\ single[c] # NoResult =>
         IF target[c] \in validators
           THEN KindMatchesValidity(single[c])
           ELSE ~single[c].IsValid /\ single[c].ErrorType = ""

C34_Witness ==
  \E c \in RequestCallers :
    /\ op[c] = "one"
    /\ target[c] = "one"
    /\ validators = {"one"}
    /\ single[c] # NoResult
    /\ kerr[c]["one"] = ErrConfigFailed
    /\ single[c].ErrorType = errorTypeConfig
    /\ ~single[c].IsValid

\* C35 as stated: every series of the failure counter has an error_type
\* that is a tag of the taxonomy and is, with its bucket, the name and error
\* kind of a failed result handed to the recorder; the failed results of a
\* response carry the error kind their series is labelled with.
C35_Original ==
  /\ \A s \in failureSeries :
       /\ s[2] \in ErrorKinds
       /\ s \in failedResults
  /\ \A c \in RequestCallers :
       /\ Returned(c) =>
            \A n \in InvalidIn(c) :
              <<n, results[c][n].ErrorType>> \in failureSeries
       /\ (op[c] = "one" /\ single[c] # NoResult /\ ~single[c].IsValid) =>
            <<target[c], single[c].ErrorType>> \in failureSeries

\* C36: in the response of POST /validate the summary's total is the number
\* of entries of results, successful is the number of valid entries, failed
\* the number of invalid ones, and successful + failed = total.
C36_SummaryCounts ==
  \A c \in RequestCallers :
    (Returned(c) /\ httpStatus[c] # NoStatus) =>
      /\ summary[c].TotalEndpoints = Cardinality(DOMAIN results[c])
      /\ summary[c].Successful =
           Cardinality({n \in DOMAIN results[c] : results[c][n].IsValid})
      /\ summary[c].Failed =
           Cardinality({n \in DOMAIN results[c] : ~results[c][n].IsValid})
      /\ summary[c].Successful + summary[c].Failed = summary[c].TotalEndpoints

C36_Witness ==
  \E c \in RequestCallers :
    /\ Returned(c)
    /\ DOMAIN results[c] = {"one", "two"}
    /\ results[c]["one"].IsValid
    /\ ~results[c]["two"].IsValid
    /\ summary[c] = [TotalEndpoints |-> 2, Successful |-> 1, Failed |-> 1]

\* C37 as stated: a call that finds the client slot of its validator
\* populated goes on with the cached client without acquiring the client
\* lock.
C37_Original ==
  [][\A c \in Callers : \A n \in EndpointNames :
       (kpc[c][n] = "lock" /\ client[n] # NoClient /\ kpc'[c][n] # "lock") =>
         /\ clientMu' = clientMu
         /\ kclient'[c][n] = client[n]]_vars

\* C37 amended: every call enters getClient by acquiring the free client
\* lock, whether the slot is populated or not, and a call that takes the
\* cached client reads the slot while it holds the lock and releases the
\* lock on returning.
C37_CachedReadUnderLock ==
  [][\A c \in Callers : \A n \in EndpointNames :
       /\ (kpc[c][n] = "lock" /\ kpc'[c][n] # "lock") =>
            /\ clientMu[n] = NoHolder
            /\ clientMu'[n] = c
       /\ (kclient[c][n] = NoClient /\ kclient'[c][n] # NoClient
             /\ kbuilds'[c][n] = 0) =>
            /\ clientMu[n] = c
            /\ kclient'[c][n] = client[n]
            /\ clientMu'[n] = NoHolder]_vars

C37_Witness ==
  /\ client["one"] # NoClient
  /\ kbuilds["tick"]["one"] = 1
  /\ kbuilds["request"]["one"] = 0
  /\ kpc["request"]["one"] = "probe"
  /\ kclient["request"]["one"] = client["one"]
  /\ clientMu["one"] = NoHolder

\* C38: the client lock of a validator is free whenever no call is inside
\* getClient on it, and every ValidateKeys call in flight eventually returns,
\* whatever the other caller does on the same validator.
C38_LockReleased ==
  /\ [](\A n \in EndpointNames :
          (\A c \in Callers : kpc[c][n] \notin {"locked", "build"}) =>
            clientMu[n] = NoHolder)
  /\ \A c \in Callers : \A n \in EndpointNames :
       (kpc[c][n] \in {"lock", "locked", "build", "probe"}) ~> Finished(c, n)

C38_Witness ==
  /\ Finished("request", "one")
  /\ Finished("tick", "one")
  /\ buildFails["one"] = 1
  /\ \E c \in Callers : kbuilds[c]["one"] = 1 /\ kclient[c]["one"] # NoClient
  /\ clientMu["one"] = NoHolder

\* C39: a worker that has its result finds a free slot in the result
\* channel, the manager's read lock is released when ValidateAll waits for
\* its workers, a ValidateAll on a manager without validators returns the
\* empty map, and every ValidateAll that was started returns.
C39_ValidateAllTerminates ==
  /\ [](\A c \in RequestCallers :
          /\ \A n \in EndpointNames :
               kpc[c][n] = "send" => Len(resultsChan[c]) < chanCap[c]
          /\ mpc[c] = "waiting" => muReaders = 0
          /\ (Returned(c) /\ validators = {}) => results[c] = EmptyMap)
  /\ \A c \in RequestCallers :
       (op[c] = "all" /\ mpc[c] \in {"spawning", "waiting"}) ~> Returned(c)

C39_Witness ==
  \E c \in RequestCallers :
    /\ Returned(c)
    /\ validators = {"one", "two"}
    /\ chanCap[c] = 2
    /\ DOMAIN results[c] = {"one", "two"}
    /\ wg[c] = 0
    /\ muReaders = 0

====
